---- MODULE Spec2Model ----
(***************************************************************************)
(* Model of the software sprite rasterizer (SpriteRenderer.hpp,            *)
(* IntRectangle.hpp, InlineStorageVector.hpp).                             *)
(*                                                                         *)
(* SpriteRenderer.hpp holds two versions of the renderer.  They differ     *)
(* only in RasterLine::insertAllActivatedSprites: the first (lines         *)
(* 134-167) inserts every activated sprite one by one, the second (lines   *)
(* 515-578) sorts the begin list and merges it into the stack.  The state  *)
(* variable `variant` says which version a renderer was built from.        *)
(***************************************************************************)
EXTENDS Integers, Sequences, FiniteSets, TLC

(***************************************************************************)
(* Bounds of the model and constants of the program.                       *)
(***************************************************************************)
\* Width and height the renderer is constructed with.
Width == 3
Height == 9
\* Coord is int32_t in the source; the model keeps two's complement
\* wraparound but scales the word down to CoordBits bits.
CoordBits == 6
\* Number of sprites of one render call.
MaxSprites == 2
\* constexpr int blockSize = 8
blockSize == 8
\* template<size_t numInlineSpritesPerPixel = 4>
numInlineSpritesPerPixel == 4
\* The caller's buffer: pitch is Width + PadWords words, and ExtraRows rows
\* follow the Height rows of the frame.
PadWords == 1
ExtraRows == 1
\* Number of put calls between two clear calls of an InlineStorageVector
\* used on its own.
MaxPuts == 6

VARIABLES
    variant,      \* "onebyone" or "sortmerge": the version of RasterLine built
    sprites,      \* the vector<Sprite> of the current (or last) render call
    blocks,       \* distributeSpritesToRasterLines' local vector<LineBlock>
    rasterLines,  \* SpriteRenderer::rasterLines, row -> column -> begin list
    framebuffer,  \* the caller's buffer, row -> word index -> 32-bit word
    pc,           \* where the render call stands
    blocksTodo,   \* Pass A iterations not yet run
    rowsTodo,     \* Pass B iterations not yet run
    reused,       \* an earlier render call has returned on this renderer
    reordered,    \* some iteration of this call ran before a lower-numbered one
    calc,         \* operands and results of calls made on their own
                  \* (IntRectangle, the pixel packer)
    ndebug        \* the build defines NDEBUG: assert() is compiled out

vars == <<variant, sprites, blocks, rasterLines, framebuffer, pc,
          blocksTodo, rowsTodo, reused, reordered, calc, ndebug>>

(***************************************************************************)
(* Integer helpers.                                                        *)
(***************************************************************************)
RECURSIVE Pow2(_)
Pow2(n) == IF n = 0 THEN 1 ELSE 2 * Pow2(n - 1)

\* Conversion of a value to the signed coordinate type (int32_t in the
\* source, two's complement, CoordBits wide in the model).
CoordModulus == Pow2(CoordBits)
ToCoord(v) ==
    LET m == v % CoordModulus
    IN  IF m >= CoordModulus \div 2 THEN m - CoordModulus ELSE m

\* Conversion of a value to the unsigned coordinate type UCoord.
ToUCoord(v) == v % CoordModulus

\* The / of C++ on int: the quotient truncated towards zero.
CDiv(a, b) == IF a >= 0 THEN a \div b ELSE -((-a) \div b)

max(a, b) == IF a < b THEN b ELSE a
min(a, b) == IF b < a THEN b ELSE a

(***************************************************************************)
(* IntRectangle                                                            *)
(***************************************************************************)
IntRectangle(x, y, width, height) ==
    [x |-> x, y |-> y, width |-> ToUCoord(width), height |-> ToUCoord(height)]

DefaultIntRectangle == [x |-> 0, y |-> 0, width |-> 0, height |-> 0]

isEmpty(r) == (r.width = 0) \/ (r.height = 0)

\* getLastX without the - 1.
getLastX_PastTheEnd(r) == ToCoord(r.x + r.width)

getLastX(r) == ToCoord(r.x + r.width - 1)

\* getLastY without the - 1.
getLastY_PastTheEnd(r) == ToCoord(r.y + r.height)

getLastY(r) == ToCoord(r.y + r.height - 1)

intersects(r, other) ==
    IF isEmpty(r) \/ isEmpty(other) THEN FALSE
    ELSE IF other.x > getLastX(r) THEN FALSE
    ELSE IF r.x > getLastX(other) THEN FALSE
    ELSE IF other.y > getLastY(r) THEN FALSE
    ELSE IF r.y > getLastY(other) THEN FALSE
    ELSE TRUE

\* The outcome of a call in which an assert() failed: the process aborts.
AssertionFailed == [aborted |-> TRUE]

\* getIntersection that keeps its own origin instead of the larger one.
getIntersection_OwnOrigin(r, other) ==
    IF ~intersects(r, other) THEN DefaultIntRectangle
    ELSE LET lastX == min(getLastX(r), getLastX(other))
             lastY == min(getLastY(r), getLastY(other))
         IN  IF ~ndebug /\ ~(lastX >= r.x /\ lastY >= r.y) THEN AssertionFailed
             ELSE [x |-> r.x, y |-> r.y,
                   width |-> ToUCoord(lastX - r.x + 1),
                   height |-> ToUCoord(lastY - r.y + 1)]

\* The two assert()s of getIntersection stop the call unless the build
\* defines NDEBUG.
getIntersection(r, other) ==
    IF ~intersects(r, other) THEN DefaultIntRectangle
    ELSE LET rx == max(r.x, other.x)
             ry == max(r.y, other.y)
             lastX == min(getLastX(r), getLastX(other))
             lastY == min(getLastY(r), getLastY(other))
         IN  IF ~ndebug /\ ~(lastX >= rx /\ lastY >= ry) THEN AssertionFailed
             ELSE [x |-> rx, y |-> ry,
                   width |-> ToUCoord(lastX - rx + 1),
                   height |-> ToUCoord(lastY - ry + 1)]

(***************************************************************************)
(* SpritePixel, Sprite, PixelPacker                                        *)
(***************************************************************************)
\* SpritePixel(r, g, b): an opaque pixel.
OpaquePixel(r, g, b) == [r |-> r, g |-> g, b |-> b, isTransparent |-> FALSE]

\* SpritePixel(): the transparent pixel.
TransparentPixel == [r |-> 0, g |-> 0, b |-> 0, isTransparent |-> TRUE]

\* A Sprite is [id, position, layer, pattern, colour]: id stands for the
\* sprite's address in the caller's vector (its index), pattern and colour
\* for its pixelGetter closure.
\* The pixelGetter closures of the model: a constant opaque colour, a fully
\* transparent sprite, and a checkerboard that is transparent where u + v is
\* odd.
pixelGetter(sprite, u, v) ==
    CASE sprite.pattern = "opaque" ->
            OpaquePixel(sprite.colour[1], sprite.colour[2], sprite.colour[3])
      [] sprite.pattern = "clear" -> TransparentPixel
      [] sprite.pattern = "checker" ->
            IF (u + v) % 2 = 1 THEN TransparentPixel
            ELSE OpaquePixel(sprite.colour[1], sprite.colour[2], sprite.colour[3])

\* A 32-bit word is kept as its four bytes
\* <<bits 24-31, bits 16-23, bits 8-15, bits 0-7>>.
\* The uint8_t argument v promoted to int.
promote(v) == <<0, 0, 0, v % 256>>

\* word << n for the shift counts of the packer, n = 8, 16 or 24: every byte
\* moves n / 8 places up, the bytes shifted out of the word are lost.
shiftLeft(word, n) ==
    LET k == n \div 8
        byte(i) == IF i + k <= 4 THEN word[i + k] ELSE 0
    IN  <<byte(1), byte(2), byte(3), byte(4)>>

\* a | b on the lowest n bits of two bytes.
RECURSIVE bitOr(_, _, _)
bitOr(a, b, n) ==
    IF n = 0 THEN 0
    ELSE IF a = 0 THEN b
    ELSE IF b = 0 THEN a
    ELSE (IF a % 2 = 1 \/ b % 2 = 1 THEN 1 ELSE 0)
         + 2 * bitOr(a \div 2, b \div 2, n - 1)

\* u | w on two words.
wordOr(u, w) ==
    <<bitOr(u[1], w[1], 8), bitOr(u[2], w[2], 8),
      bitOr(u[3], w[3], 8), bitOr(u[4], w[4], 8)>>

\* The packer with the red byte shifted by 8 like the green one.
rgbToARGB8888_RedShiftedBy8(r, g, b) ==
    wordOr(wordOr(wordOr(shiftLeft(promote(255), 24), shiftLeft(promote(r), 8)),
                  shiftLeft(promote(g), 8)),
           promote(b))

\* rgbToARGB8888: (0xFF << 24) | (r << 16) | (g << 8) | b, converted to
\* uint32_t.  0xFF << 24 does not fit a 32-bit int; the language version the
\* sources need (std::variant) defines the result as the value converted to
\* int, which keeps the bit pattern.
rgbToARGB8888(r, g, b) ==
    wordOr(wordOr(wordOr(shiftLeft(promote(255), 24), shiftLeft(promote(r), 16)),
                  shiftLeft(promote(g), 8)),
           promote(b))

(***************************************************************************)
(* InlineStorageVector<const Sprite *, numInlineSpritesPerPixel>           *)
(***************************************************************************)
\* variant<InlineStorage, vector<T>>: inline tells which alternative is
\* held, elems are the nElems (or size()) elements in it.
ISV_empty == [inline |-> TRUE, elems |-> <<>>]

\* put that stores the new element in front of the others.
ISV_put_InFront(v, elem) ==
    IF v.inline /\ Len(v.elems) < numInlineSpritesPerPixel
        THEN [v EXCEPT !.elems = <<elem>> \o @]
        ELSE [inline |-> FALSE, elems |-> <<elem>> \o v.elems]

ISV_put(v, elem) ==
    IF v.inline /\ Len(v.elems) < numInlineSpritesPerPixel
        THEN [v EXCEPT !.elems = Append(@, elem)]
        ELSE [inline |-> FALSE, elems |-> Append(v.elems, elem)]

ISV_size(v) == Len(v.elems)

\* clear() that goes back to inline storage but keeps nElems.
ISV_clear_KeepsElems(v) == [v EXCEPT !.inline = TRUE]

ISV_clear(v) == ISV_empty

(***************************************************************************)
(* RasterLine                                                              *)
(***************************************************************************)
Columns == 0 .. (Width - 1)
Rows == 0 .. (Height - 1)

\* RasterLine(width): pixels.resize(width), every begin list empty.
RasterLine_new == [x \in Columns |-> ISV_empty]

\* nullptr, the placeholder the merge appends to the sprite stack.
Nullptr == [id |-> -1]

\* vector::insert(pos, value) with pos given as the number of elements
\* before it.
VecInsert(vec, before, elem) ==
    SubSeq(vec, 1, before) \o <<elem>> \o SubSeq(vec, before + 1, Len(vec))

\* First version, insertActiveSprite: walk down from the top for the first
\* entry whose layer is smaller than the new one's, insert above it.
RECURSIVE insertActiveSpriteScan(_, _, _)
insertActiveSpriteScan(spriteStack, i, insertLayer) ==
    IF i = 0 THEN 0
    ELSE IF spriteStack[i].layer < insertLayer THEN i
    ELSE insertActiveSpriteScan(spriteStack, i - 1, insertLayer)

\* insertActiveSprite that puts the sprite on top whatever its layer.
insertActiveSprite_OnTop(spriteStack, sprite) == Append(spriteStack, sprite)

insertActiveSprite(spriteStack, sprite) ==
    VecInsert(spriteStack,
              insertActiveSpriteScan(spriteStack, Len(spriteStack), sprite.layer),
              sprite)

\* First version, insertAllActivatedSprites: insertActiveSprite for
\* beginningSprites[0], [1], ... in order.  The begin list is left as it is.
RECURSIVE insertOneByOne(_, _, _)
insertOneByOne(spriteStack, elems, i) ==
    IF i > Len(elems) THEN spriteStack
    ELSE insertOneByOne(insertActiveSprite(spriteStack, elems[i]), elems, i + 1)

insertAllActivatedSpritesV1(spriteStack, rlPx) ==
    [stack |-> insertOneByOne(spriteStack, rlPx.elems, 1), rlPx |-> rlPx]

\* order with the comparison turned round: the begin list sorted descending.
order_Descending(a, b) == a.layer > b.layer

\* order with <= for <: equal layers count as out of order.
order_NotStrict(a, b) == a.layer <= b.layer

\* order(a, b): a->layer < b->layer.
order(a, b) == a.layer < b.layer

\* std::sort(begin, end, order) as the build runs it (libstdc++, introsort).
\* A range [first, last) is given by the 1-based places of its first element
\* and of the place after its last one.

\* _S_threshold: ranges of more elements are partitioned first.
S_threshold == 16

\* std::__lg(n): the position of the highest set bit of n.
RECURSIVE lg(_)
lg(n) == IF n <= 1 THEN 0 ELSE 1 + lg(n \div 2)

\* std::iter_swap(a, b).
iterSwap(elems, a, b) == [elems EXCEPT ![a] = elems[b], ![b] = elems[a]]

\* __unguarded_linear_insert(last): the element is shifted down while it
\* sorts before its left neighbour.
RECURSIVE unguardedLinearInsert(_, _)
unguardedLinearInsert(elems, last) ==
    IF last > 1 /\ order(elems[last], elems[last - 1])
        THEN unguardedLinearInsert(
                 [elems EXCEPT ![last] = elems[last - 1], ![last - 1] = elems[last]],
                 last - 1)
        ELSE elems

\* __insertion_sort(first, last), from element i on: element i moves to the
\* front of the range when it sorts before the first element, otherwise it
\* is shifted down by __unguarded_linear_insert.
RECURSIVE insertionSort(_, _, _, _)
insertionSort(elems, first, i, last) ==
    IF i >= last THEN elems
    ELSE IF order(elems[i], elems[first])
        THEN insertionSort(SubSeq(elems, 1, first - 1) \o <<elems[i]>>
                               \o SubSeq(elems, first, i - 1)
                               \o SubSeq(elems, i + 1, Len(elems)),
                           first, i + 1, last)
        ELSE insertionSort(unguardedLinearInsert(elems, i), first, i + 1, last)

\* __unguarded_insertion_sort(first, last): its loop, in the state it [elems,
\* i] with i the place of __i.
RECURSIVE unguardedInsertionLoop(_, _)
unguardedInsertionLoop(it, last) ==
    IF it.i >= last THEN it.elems
    ELSE unguardedInsertionLoop([elems |-> unguardedLinearInsert(it.elems, it.i),
                                 i |-> it.i + 1], last)

unguardedInsertionSort(elems, first, last) ==
    unguardedInsertionLoop([elems |-> elems, i |-> first], last)

\* __final_insertion_sort(first, last).
finalInsertionSort(elems, first, last) ==
    IF last - first > S_threshold
        THEN unguardedInsertionSort(
                 insertionSort(elems, first, first + 1, first + S_threshold),
                 first + S_threshold, last)
        ELSE insertionSort(elems, first, first + 1, last)

\* __move_median_to_first(result, a, b, c): the median of the elements at a,
\* b and c changes places with the one at result.
moveMedianToFirst(elems, result, a, b, c) ==
    IF order(elems[a], elems[b])
        THEN IF order(elems[b], elems[c]) THEN iterSwap(elems, result, b)
             ELSE IF order(elems[a], elems[c]) THEN iterSwap(elems, result, c)
             ELSE iterSwap(elems, result, a)
        ELSE IF order(elems[a], elems[c]) THEN iterSwap(elems, result, a)
             ELSE IF order(elems[b], elems[c]) THEN iterSwap(elems, result, c)
             ELSE iterSwap(elems, result, b)

\* __unguarded_partition: while (comp(first, pivot)) ++first.
RECURSIVE partitionUp(_, _, _)
partitionUp(elems, first, pivot) ==
    IF order(elems[first], elems[pivot]) THEN partitionUp(elems, first + 1, pivot)
    ELSE first

\* __unguarded_partition: while (comp(pivot, last)) --last.
RECURSIVE partitionDown(_, _, _)
partitionDown(elems, last, pivot) ==
    IF order(elems[pivot], elems[last]) THEN partitionDown(elems, last - 1, pivot)
    ELSE last

\* __unguarded_partition(first, last, pivot).  Gives the elements and cut,
\* the place returned.
RECURSIVE unguardedPartition(_, _, _, _)
unguardedPartition(elems, first, last, pivot) ==
    LET Stopped(f, l) ==
            IF ~(f < l) THEN [elems |-> elems, cut |-> f]
            ELSE unguardedPartition(iterSwap(elems, f, l), f + 1, l, pivot)
    IN  Stopped(partitionUp(elems, first, pivot), partitionDown(elems, last - 1, pivot))

\* __unguarded_partition_pivot(first, last).
unguardedPartitionPivot(elems, first, last) ==
    LET mid == first + CDiv(last - first, 2)
    IN  unguardedPartition(moveMedianToFirst(elems, first, first + 1, mid, last - 1),
                           first + 1, last, first)

\* __push_heap(first, holeIndex, topIndex, value); the indices count from 0
\* at first.
RECURSIVE pushHeap(_, _, _, _, _)
pushHeap(elems, first, holeIndex, topIndex, value) ==
    LET parent == CDiv(holeIndex - 1, 2)
    IN  IF holeIndex > topIndex /\ order(elems[first + parent], value)
        THEN pushHeap([elems EXCEPT ![first + holeIndex] = elems[first + parent]],
                      first, parent, topIndex, value)
        ELSE [elems EXCEPT ![first + holeIndex] = value]

\* __adjust_heap, its first loop: the hole moves down to the child that does
\* not sort before the other.  Gives the elements, holeIndex and secondChild.
RECURSIVE adjustHeapDown(_, _, _, _, _)
adjustHeapDown(elems, first, holeIndex, secondChild, len) ==
    IF secondChild < CDiv(len - 1, 2)
    THEN LET right == 2 * (secondChild + 1)
             child == IF order(elems[first + right], elems[first + (right - 1)])
                      THEN right - 1 ELSE right
         IN  adjustHeapDown([elems EXCEPT ![first + holeIndex] = elems[first + child]],
                            first, child, child, len)
    ELSE [elems |-> elems, holeIndex |-> holeIndex, secondChild |-> secondChild]

\* __adjust_heap(first, holeIndex, len, value).
adjustHeap(elems, first, holeIndex, len, value) ==
    LET Push(down, only) ==
            IF len % 2 = 0 /\ down.secondChild = CDiv(len - 2, 2)
            THEN pushHeap([down.elems EXCEPT ![first + down.holeIndex] =
                                                 down.elems[first + (only - 1)]],
                          first, only - 1, holeIndex, value)
            ELSE pushHeap(down.elems, first, down.holeIndex, holeIndex, value)
        Down(down) == Push(down, 2 * (down.secondChild + 1))
    IN  Down(adjustHeapDown(elems, first, holeIndex, holeIndex, len))

\* __make_heap(first, last): its loop, in the state it [elems, parent].
RECURSIVE makeHeapLoop(_, _, _)
makeHeapLoop(it, first, len) ==
    LET Adjusted(adjusted) ==
            IF it.parent = 0 THEN adjusted
            ELSE makeHeapLoop([elems |-> adjusted, parent |-> it.parent - 1], first, len)
    IN  Adjusted(adjustHeap(it.elems, first, it.parent, len, it.elems[first + it.parent]))

makeHeap(elems, first, last) ==
    IF last - first < 2 THEN elems
    ELSE makeHeapLoop([elems |-> elems, parent |-> CDiv(last - first - 2, 2)],
                      first, last - first)

\* __pop_heap(first, last, result).
popHeap(elems, first, last, result) ==
    adjustHeap([elems EXCEPT ![result] = elems[first]], first, 0, last - first,
               elems[result])

\* __sort_heap(first, last): its loop, in the state it [elems, last].
RECURSIVE sortHeapLoop(_, _)
sortHeapLoop(it, first) ==
    IF it.last - first > 1
    THEN sortHeapLoop([elems |-> popHeap(it.elems, first, it.last - 1, it.last - 1),
                       last |-> it.last - 1], first)
    ELSE it.elems

sortHeap(elems, first, last) == sortHeapLoop([elems |-> elems, last |-> last], first)

\* __partial_sort(first, last, last): __heap_select makes a heap of the
\* range (no element is left behind middle = last), __sort_heap sorts it.
partialSort(elems, first, last) == sortHeap(makeHeap(elems, first, last), first, last)

\* __introsort_loop(first, last, depth_limit).
RECURSIVE introsortLoop(_, _, _, _)
introsortLoop(elems, first, last, depthLimit) ==
    IF last - first > S_threshold
    THEN IF depthLimit = 0 THEN partialSort(elems, first, last)
         ELSE LET Parted(part) ==
                      introsortLoop(introsortLoop(part.elems, part.cut, last, depthLimit - 1),
                                    first, part.cut, depthLimit - 1)
              IN  Parted(unguardedPartitionPivot(elems, first, last))
    ELSE elems

sort(elems) ==
    IF Len(elems) = 0 THEN elems
    ELSE finalInsertionSort(introsortLoop(elems, 1, Len(elems) + 1, lg(Len(elems)) * 2),
                            1, Len(elems) + 1)

\* Second version, the merge loop of insertAllActivatedSprites.  stack has
\* been resized; previousContent, write and toInsert are the 1-based places
\* of previousContentIter, writeIter and spritesToInsertIter.  Gives the
\* stack, and steps, the number of times the loop body ran.
RECURSIVE mergeLoop(_, _, _, _, _, _)
mergeLoop(stack, elems, previousContent, write, toInsert, startReached) ==
    LET w == write - 1
        spriteToInsert == elems[toInsert]
        insertHere == startReached
                      \/ (spriteToInsert.layer > stack[previousContent].layer)
        counted(rest) == [rest EXCEPT !.steps = @ + 1]
    IN  IF insertHere
        THEN LET st == [stack EXCEPT ![w] = spriteToInsert]
             IN  IF toInsert = 1 THEN [stack |-> st, steps |-> 1]
                 ELSE counted(mergeLoop(st, elems, previousContent, w, toInsert - 1,
                                        startReached))
        ELSE LET moved == [stack EXCEPT ![w] = stack[previousContent]]
                 st == [moved EXCEPT ![previousContent] = Nullptr]
             IN  IF previousContent = 1
                 THEN counted(mergeLoop(st, elems, previousContent, w, toInsert, TRUE))
                 ELSE counted(mergeLoop(st, elems, previousContent - 1, w, toInsert,
                                        startReached))

\* Second version, insertAllActivatedSprites: sorts the begin list in place
\* and merges it into the stack.
insertAllActivatedSpritesV2(spriteStack, rlPx) ==
    LET nSpritesToInsert == ISV_size(rlPx)
        previousSize == Len(spriteStack)
        Merged(sorted, merged) ==
            IF previousSize = 0
                THEN [stack |-> sorted.elems \o spriteStack, rlPx |-> sorted, steps |-> 0]
            ELSE [stack |-> merged.stack, rlPx |-> sorted, steps |-> merged.steps]
        Sorted(sorted) ==
            Merged(sorted,
                   mergeLoop(spriteStack \o [i \in 1 .. nSpritesToInsert |-> Nullptr],
                             sorted.elems, previousSize,
                             previousSize + nSpritesToInsert + 1,
                             nSpritesToInsert, FALSE))
    IN  IF nSpritesToInsert = 0
            THEN [stack |-> spriteStack, rlPx |-> rlPx, steps |-> 0]
        ELSE Sorted([rlPx EXCEPT !.elems = sort(@)])

\* insertAllActivatedSprites that puts the sorted begin list in place of the
\* stack's previous content.
insertAllActivatedSprites_DropsPrevious(v, spriteStack, rlPx) ==
    IF ISV_size(rlPx) = 0 THEN [stack |-> spriteStack, rlPx |-> rlPx]
    ELSE [stack |-> sort(rlPx.elems), rlPx |-> [rlPx EXCEPT !.elems = sort(@)]]

\* insertAllActivatedSprites that puts the sorted begin list on top of the
\* stack without merging.
insertAllActivatedSprites_OnTop(v, spriteStack, rlPx) ==
    [stack |-> spriteStack \o sort(rlPx.elems), rlPx |-> [rlPx EXCEPT !.elems = sort(@)]]

insertAllActivatedSprites(v, spriteStack, rlPx) ==
    IF v = "onebyone" THEN insertAllActivatedSpritesV1(spriteStack, rlPx)
    ELSE insertAllActivatedSpritesV2(spriteStack, rlPx)

\* erase(remove_if(..., x > sprite->position.getLastX()), end).
removeInactiveSpritesFromSpriteStack(spriteStack, x) ==
    SelectSeq(spriteStack, LAMBDA sprite : ~(x > getLastX(sprite.position)))

\* pop_back that empties the stack.
pop_back_Everything(spriteStack) == <<>>

pop_back(spriteStack) == SubSeq(spriteStack, 1, Len(spriteStack) - 1)

\* renderPixel: sprIt is the 1-based place of the reverse iterator (Len is
\* rbegin, 0 is rend); a removal restarts the scan (goto renderPixelRetry).
\* Gives the stack and the pixel, and with them what the call did on its
\* way: calls, the calls of pixelGetter in the order they were made, and
\* retries, the number of jumps to renderPixelRetry.
RECURSIVE renderPixelScan(_, _, _, _)
renderPixelScan(spriteStack, sprIt, x, y) ==
    IF sprIt = 0
    THEN [stack |-> spriteStack, pix |-> TransparentPixel, calls |-> <<>>,
          retries |-> 0]
    ELSE LET spr == spriteStack[sprIt]
         IN  IF getLastX(spr.position) < x
             THEN LET st == IF sprIt = Len(spriteStack)
                                THEN pop_back(spriteStack)
                                ELSE removeInactiveSpritesFromSpriteStack(spriteStack, x)
                      retry == renderPixelScan(st, Len(st), x, y)
                  IN  [retry EXCEPT !.retries = @ + 1]
             ELSE LET call == [sprite |-> spr, u |-> x - spr.position.x,
                               v |-> y - spr.position.y]
                      pix == pixelGetter(spr, call.u, call.v)
                  IN  IF ~pix.isTransparent
                      THEN [stack |-> spriteStack, pix |-> pix, calls |-> <<call>>,
                            retries |-> 0]
                      ELSE LET rest == renderPixelScan(spriteStack, sprIt - 1, x, y)
                           IN  [rest EXCEPT !.calls = <<call>> \o @]

\* renderPixel that takes every sprite of the stack for active.
RECURSIVE renderPixelScan_NoStaleTest(_, _, _, _)
renderPixelScan_NoStaleTest(spriteStack, sprIt, x, y) ==
    IF sprIt = 0
    THEN [stack |-> spriteStack, pix |-> TransparentPixel, calls |-> <<>>,
          retries |-> 0]
    ELSE LET spr == spriteStack[sprIt]
             call == [sprite |-> spr, u |-> x - spr.position.x,
                      v |-> y - spr.position.y]
             pix == pixelGetter(spr, call.u, call.v)
         IN  IF ~pix.isTransparent
             THEN [stack |-> spriteStack, pix |-> pix, calls |-> <<call>>,
                   retries |-> 0]
             ELSE LET rest == renderPixelScan_NoStaleTest(spriteStack, sprIt - 1, x, y)
                  IN  [rest EXCEPT !.calls = <<call>> \o @]

renderPixel_NoStaleTest(spriteStack, x, y) ==
    renderPixelScan_NoStaleTest(spriteStack, Len(spriteStack), x, y)

\* renderPixel that returns the topmost sprite's pixel whether or not it is
\* transparent.
renderPixel_TopOnly(spriteStack, x, y) ==
    IF Len(spriteStack) = 0
    THEN [stack |-> spriteStack, pix |-> TransparentPixel, calls |-> <<>>,
          retries |-> 0]
    ELSE LET spr == spriteStack[Len(spriteStack)]
         IN  IF getLastX(spr.position) < x
             THEN renderPixelScan(spriteStack, Len(spriteStack), x, y)
             ELSE [stack |-> spriteStack,
                   pix |-> pixelGetter(spr, x - spr.position.x, y - spr.position.y),
                   calls |-> <<[sprite |-> spr, u |-> x - spr.position.x,
                                v |-> y - spr.position.y]>>,
                   retries |-> 0]

renderPixel(spriteStack, x, y) ==
    renderPixelScan(spriteStack, Len(spriteStack), x, y)

\* RasterLine::render, the loop over x from column x on.  st is
\* [line, stack, target]: the line's pixels, the activeSpriteStack and the
\* words written to targetPixels so far.
RECURSIVE RasterLine_renderFrom(_, _, _, _)
RasterLine_renderFrom(v, st, x, y) ==
    IF ~(x < Width) THEN st
    ELSE LET Packed(ins, res, pix) ==
                 RasterLine_renderFrom(v,
                     [line |-> [st.line EXCEPT ![x] = ins.rlPx],
                      stack |-> res.stack,
                      target |-> [st.target EXCEPT
                                      ![x] = rgbToARGB8888(pix.r, pix.g, pix.b)]],
                     x + 1, y)
             Rendered(ins, res) ==
                 Packed(ins, res,
                        IF res.pix.isTransparent THEN OpaquePixel(0, 0, 0) ELSE res.pix)
             Inserted(ins) == Rendered(ins, renderPixel(ins.stack, x, y))
         IN  Inserted(insertAllActivatedSprites(v, st.stack, st.line[x]))

\* RasterLine::render(targetPixels, y, pixelPacker).
RasterLine_render(v, line, targetPixels, y) ==
    RasterLine_renderFrom(v, [line |-> line, stack |-> <<>>, target |-> targetPixels],
                          0, y)

\* RasterLine::addSprite(sprite, firstX).
addSprite(line, sprite, firstX) ==
    [line EXCEPT ![firstX] = ISV_put(@, sprite)]

\* RasterLine::clear().
RECURSIVE RasterLine_clearFrom(_, _)
RasterLine_clearFrom(line, x) ==
    IF ~(x < Width) THEN line
    ELSE RasterLine_clearFrom([line EXCEPT ![x] = ISV_clear(@)], x + 1)

\* clear() that leaves the begin lists as they are.
RasterLine_clear_Nothing(line) == line

RasterLine_clear(line) == RasterLine_clearFrom(line, 0)

(***************************************************************************)
(* SpriteRenderer                                                          *)
(***************************************************************************)
\* numBlocks with the quotient rounded down.
numBlocks_RoundedDown == Height \div blockSize

\* const int numBlocks = (height + blockSize - 1) / blockSize.
numBlocks == (Height + blockSize - 1) \div blockSize
BlockIds == 0 .. (numBlocks - 1)

\* IntRectangle<int32_t> viewport(0, 0, width, height).
viewport == IntRectangle(0, 0, Width, Height)

\* SpriteRenderer(width, height, pixelPacker): rasterLines.resize(height, width).
SpriteRenderer_new == [y \in Rows |-> RasterLine_new]

\* for (i = firstBlock; i <= lastBlock; i++) blocks[i].sprites.push_back(sprite).
RECURSIVE pushToBlocksFrom(_, _, _, _)
pushToBlocksFrom(blks, sprite, i, lastBlock) ==
    IF ~(i <= lastBlock) THEN blks
    ELSE pushToBlocksFrom([blks EXCEPT ![i] = Append(@, sprite)], sprite,
                          i + 1, lastBlock)

\* The first loop without its isEmpty() test.
pushToBlocks_NoEmptyTest(blks, sprite) ==
    LET visibleRect == getIntersection(viewport, sprite.position)
    IN  pushToBlocksFrom(blks, sprite, CDiv(visibleRect.y, blockSize),
                         CDiv(getLastY(visibleRect), blockSize))

\* distributeSpritesToRasterLines, first loop, for one sprite: push it to
\* blocks[firstBlock .. lastBlock] unless nothing of it is visible.
pushToBlocks(blks, sprite) ==
    LET visibleRect == getIntersection(viewport, sprite.position)
        firstBlock == CDiv(visibleRect.y, blockSize)
        lastBlock == CDiv(getLastY(visibleRect), blockSize)
    IN  IF isEmpty(visibleRect) THEN blks
        ELSE pushToBlocksFrom(blks, sprite, firstBlock, lastBlock)

\* distributeSpritesToRasterLines, first loop: the sprites sorted into
\* blocks, in input order.
RECURSIVE sortIntoBlocks(_, _, _)
sortIntoBlocks(blks, sprs, k) ==
    IF k > Len(sprs) THEN blks
    ELSE sortIntoBlocks(pushToBlocks(blks, sprs[k]), sprs, k + 1)

\* blocks.resize(numBlocks).
emptyBlocks == [i \in BlockIds |-> <<>>]

\* The second loop's blockViewport left as the whole viewport.
blockViewportOf_WholeViewport(i) == viewport

\* The viewport of iteration i of the second loop.
blockViewportOf(i) ==
    getIntersection(IntRectangle(0, i * blockSize, Width, blockSize), viewport)

\* for (y = visibleRect.y; y <= lastY; y++) rasterLines[y].addSprite(&sprite,
\* visibleRect.x).
RECURSIVE addToLinesFrom(_, _, _, _, _)
addToLinesFrom(lines, sprite, firstX, y, lastY) ==
    IF ~(y <= lastY) THEN lines
    ELSE addToLinesFrom([lines EXCEPT ![y] = addSprite(@, sprite, firstX)],
                        sprite, firstX, y + 1, lastY)

\* distributeSpritesToRasterLines, second loop, one sprite of an iteration.
distributeSprite(lines, blockViewport, sprite) ==
    LET visibleRect == getIntersection(blockViewport, sprite.position)
    IN  IF isEmpty(visibleRect) THEN lines
        ELSE addToLinesFrom(lines, sprite, visibleRect.x, visibleRect.y,
                            getLastY(visibleRect))

\* distributeSpritesToRasterLines, second loop, iteration i.
RECURSIVE distributeBlockFrom(_, _, _, _)
distributeBlockFrom(lines, blockViewport, blockSprites, k) ==
    IF k > Len(blockSprites) THEN lines
    ELSE distributeBlockFrom(distributeSprite(lines, blockViewport, blockSprites[k]),
                             blockViewport, blockSprites, k + 1)

distributeBlock(lines, blks, i) ==
    distributeBlockFrom(lines, blockViewportOf(i), blks[i], 1)

\* A barrier no iteration of Pass B gets past.
passAJoined_Never == FALSE

\* Pass A's parallel for without the barrier at its end (nowait).
passAJoined_NoWait == TRUE

\* The implicit barrier that ends the parallel for of Pass A: no iteration
\* of Pass B starts before every block iteration has ended.
passAJoined == blocksTodo = {}

\* The iteration with framebufferLine one pitch too far.
renderRow_NextLine(v, lines, fb, y) ==
    LET res == RasterLine_render(v, lines[y], fb[y + 1], y)
    IN  [lines |-> [lines EXCEPT ![y] = RasterLine_clear(res.line)],
         fb |-> [fb EXCEPT ![y + 1] = res.target]]

\* The iteration clearing every line instead of its own.
RECURSIVE clearLinesFrom(_, _)
clearLinesFrom(lines, z) ==
    IF ~(z < Height) THEN lines
    ELSE clearLinesFrom([lines EXCEPT ![z] = RasterLine_clear(@)], z + 1)

renderRow_ClearsEveryLine(v, lines, fb, y) ==
    LET res == RasterLine_render(v, lines[y], fb[y], y)
    IN  [lines |-> clearLinesFrom([lines EXCEPT ![y] = res.line], 0),
         fb |-> [fb EXCEPT ![y] = res.target]]

\* One iteration of render's loop: the line rendered into its framebuffer
\* row, then cleared.  Gives [lines, fb].
renderRow(v, lines, fb, y) ==
    LET res == RasterLine_render(v, lines[y], fb[y], y)
    IN  [lines |-> [lines EXCEPT ![y] = RasterLine_clear(res.line)],
         fb |-> [fb EXCEPT ![y] = res.target]]

(***************************************************************************)
(* The caller: the sprites and the buffer of a render call.                *)
(***************************************************************************)
BufRows == 0 .. (Height + ExtraRows - 1)
BufWords == 0 .. (Width + PadWords - 1)

\* A zeroed buffer of (Height + ExtraRows) rows of pitch bytes.
ZeroWord == <<0, 0, 0, 0>>
ZeroBuffer == [y \in BufRows |-> [w \in BufWords |-> ZeroWord]]

\* A buffer the caller has filled with a word no packed pixel equals.
FilledWord == <<90, 90, 165, 165>>
FilledBuffer == [y \in BufRows |-> [w \in BufWords |-> FilledWord]]

\* The buffers a caller hands to its first render call.
CallerBuffers == {ZeroBuffer, FilledBuffer}

\* The colour of the i-th sprite of a call; no two sprites share one, and
\* none is black.
Palette(i) == <<255 - ((40 * (i - 1)) % 200), (60 * i) % 256, (17 * i) % 256>>

\* Horizontal placements <<x, width>>: clipped at the left edge and ended
\* before the right one; begun inside and reaching past the right edge.
HSpans == {<<-1, Width>>, <<1, Width>>}

\* Rectangles on every row, clipped at the top edge and reaching past the
\* bottom one.
TallRects == {IntRectangle(h[1], -1, h[2], Height + 2) : h \in HSpans}

\* A rectangle on the last row of the first block and the row after it,
\* clipped at the left edge.
BorderRect == IntRectangle(-1, blockSize - 1, Width, 2)

\* Rectangles that do not intersect the viewport: left of it, right of it,
\* above it, below it, and an empty one inside it.
OutsideRects ==
    { IntRectangle(-2, 0, 2, Height), IntRectangle(Width, 0, 2, Height),
      IntRectangle(0, -2, Width, 2), IntRectangle(0, Height, Width, 2),
      IntRectangle(1, 1, 0, Height) }

Layers == {0, 1}
Patterns == {"opaque", "checker"}

\* What a sprite of a call may be: a rectangle on every row with any layer
\* and one of the patterns, an opaque sprite or a sprite with transparent
\* pixels above it across the block border, a fully transparent sprite over
\* every row, or an opaque sprite outside the viewport.
SpriteShapes ==
    [position : TallRects, layer : Layers, pattern : Patterns]
    \cup {[position |-> BorderRect, layer |-> 0, pattern |-> "opaque"],
          [position |-> BorderRect, layer |-> 1, pattern |-> "checker"]}
    \cup [position : {IntRectangle(-1, -1, Width, Height + 2)}, layer : {1},
          pattern : {"clear"}]
    \cup [position : OutsideRects, layer : {1}, pattern : {"opaque"}]

\* The sprite at index i of the caller's vector.
MakeSprite(i, shape) ==
    [id |-> i, position |-> shape.position, layer |-> shape.layer,
     pattern |-> shape.pattern, colour |-> Palette(i)]

\* The caller's vector<Sprite> built from the shapes f[1], ..., f[n].
MakeVector(n, f) == [i \in 1 .. n |-> MakeSprite(i, f[i])]

\* The sprites of the calls whose iterations run in every order: across the
\* block border or on every row, equal and distinct layers, with and
\* without transparent pixels.
ParShapes ==
    { [position |-> BorderRect, layer |-> 0, pattern |-> "opaque"],
      [position |-> BorderRect, layer |-> 1, pattern |-> "checker"],
      [position |-> IntRectangle(1, -1, Width, Height + 2), layer |-> 1,
       pattern |-> "opaque"] }

(***************************************************************************)
(* The state machine.                                                      *)
(***************************************************************************)
\* No call is being made on its own.
NoCalc == [op |-> "none"]

\* The renderer as constructed.
InitRenderer(v) ==
    /\ variant = v
    /\ sprites = <<>>
    /\ blocks = emptyBlocks
    /\ rasterLines = SpriteRenderer_new
    /\ pc = "idle"
    /\ blocksTodo = {}
    /\ rowsTodo = {}
    /\ reused = FALSE
    /\ reordered = FALSE

\* The renderer in a program built without NDEBUG (no build file comes with
\* the sources; assert() is compiled in unless NDEBUG is defined), and the
\* caller's buffer fb.
InitOn(v, fb) ==
    InitRenderer(v) /\ framebuffer = fb /\ calc = NoCalc /\ ndebug = FALSE

\* The same with a zeroed buffer.
InitWith(v) == InitOn(v, ZeroBuffer)

\* render(sprites, framebuffer, pitch) is entered on the caller's buffer;
\* distributeSpritesToRasterLines runs its first, sequential loop.  Nothing
\* is written to the buffer.
BeginRender(S) ==
    /\ pc = "idle"
    /\ sprites' = S
    /\ blocks' = sortIntoBlocks(emptyBlocks, S, 1)
    /\ blocksTodo' = BlockIds
    /\ rowsTodo' = Rows
    /\ pc' = "render"
    /\ reordered' = FALSE
    /\ UNCHANGED <<calc, ndebug, variant, rasterLines, framebuffer, reused>>

\* Iteration i of the parallel for of Pass A.
RunBlock(i) ==
    /\ pc = "render"
    /\ i \in blocksTodo
    /\ rasterLines' = distributeBlock(rasterLines, blocks, i)
    /\ blocksTodo' = blocksTodo \ {i}
    /\ pc' = IF blocksTodo' = {} /\ rowsTodo = {} THEN "returned" ELSE pc
    /\ reordered' = (reordered \/ \E j \in blocksTodo : j < i)
    /\ UNCHANGED <<calc, ndebug, variant, sprites, blocks, framebuffer, rowsTodo, reused>>

\* Iteration y of the parallel for of Pass B.
RunRow(y) ==
    /\ pc = "render"
    /\ passAJoined
    /\ y \in rowsTodo
    /\ LET res == renderRow(variant, rasterLines, framebuffer, y)
       IN  /\ rasterLines' = res.lines
           /\ framebuffer' = res.fb
    /\ rowsTodo' = rowsTodo \ {y}
    /\ pc' = IF blocksTodo = {} /\ rowsTodo' = {} THEN "returned" ELSE pc
    /\ reordered' = (reordered \/ \E j \in rowsTodo : j < y)
    /\ UNCHANGED <<calc, ndebug, variant, sprites, blocks, blocksTodo, reused>>

\* The caller has taken the frame and prepares the next call, on the same
\* buffer; it writes nothing to it.
NextFrame ==
    /\ pc = "returned"
    /\ pc' = "idle"
    /\ sprites' = <<>>
    /\ blocks' = emptyBlocks
    /\ reused' = TRUE
    /\ UNCHANGED <<calc, ndebug, variant, rasterLines, framebuffer, blocksTodo, rowsTodo,
                   reordered>>

\* distributeSpritesToRasterLines, second loop, iterations i .. numBlocks-1
\* in index order.
RECURSIVE distributeFrom(_, _, _)
distributeFrom(lines, blks, i) ==
    IF ~(i < numBlocks) THEN lines
    ELSE distributeFrom(distributeBlock(lines, blks, i), blks, i + 1)

\* distributeSpritesToRasterLines(sprites) run by one worker.
distributeSpritesToRasterLines(lines, S) ==
    distributeFrom(lines, sortIntoBlocks(emptyBlocks, S, 1), 0)

\* render's loop, iterations y .. height-1 in index order; st is [lines, fb].
RECURSIVE renderRowsFrom(_, _, _)
renderRowsFrom(v, st, y) ==
    IF ~(y < Height) THEN st
    ELSE renderRowsFrom(v, renderRow(v, st.lines, st.fb, y), y + 1)

\* render(sprites, framebuffer, pitch) run by one worker.  Gives [lines, fb].
render(v, lines, S, fb) ==
    renderRowsFrom(v, [lines |-> distributeSpritesToRasterLines(lines, S), fb |-> fb], 0)

\* Pass A run by one worker: schedule(dynamic) hands it every iteration, in
\* index order.
PassA ==
    /\ pc = "render"
    /\ blocksTodo # {}
    /\ rasterLines' = distributeFrom(rasterLines, blocks, 0)
    /\ blocksTodo' = {}
    /\ UNCHANGED <<calc, ndebug, variant, sprites, blocks, framebuffer, pc, rowsTodo, reused,
                   reordered>>

\* Pass B run by one worker.
PassB ==
    /\ pc = "render"
    /\ passAJoined
    /\ rowsTodo # {}
    /\ LET res == renderRowsFrom(variant, [lines |-> rasterLines, fb |-> framebuffer], 0)
       IN  /\ rasterLines' = res.lines
           /\ framebuffer' = res.fb
    /\ rowsTodo' = {}
    /\ pc' = "returned"
    /\ UNCHANGED <<calc, ndebug, variant, sprites, blocks, blocksTodo, reused, reordered>>

\* A renderer of the second version (sort and merge) and a zeroed buffer.
Init == InitWith("sortmerge")

\* A renderer of the second version and any of the caller's buffers.
InitAnyBuffer == \E fb \in CallerBuffers : InitOn("sortmerge", fb)

\* One render call, one worker.
Next ==
    \/ /\ pc = "idle"
       /\ \E n \in 0 .. MaxSprites : \E f \in [1 .. n -> SpriteShapes] :
              BeginRender(MakeVector(n, f))
    \/ PassA
    \/ PassB

Spec == InitAnyBuffer /\ [][Next]_vars

\* A renderer of the first version (one-by-one insertion), one worker.
InitV1 == InitWith("onebyone")

SpecV1 == InitV1 /\ [][Next]_vars

\* The sprites of the calls that follow one another on one renderer: on
\* every row or across the block border, opaque or with transparent pixels.
ReuseShapes ==
    { [position |-> IntRectangle(-1, -1, Width, Height + 2), layer |-> 0,
       pattern |-> "opaque"],
      [position |-> IntRectangle(1, -1, Width, Height + 2), layer |-> 1,
       pattern |-> "checker"],
      [position |-> BorderRect, layer |-> 0, pattern |-> "opaque"] }

\* Render calls one after the other on the same renderer and buffer, one
\* worker.
NextReuse ==
    \/ /\ pc = "idle"
       /\ \E n \in 0 .. MaxSprites : \E f \in [1 .. n -> ReuseShapes] :
              BeginRender(MakeVector(n, f))
    \/ PassA
    \/ PassB
    \/ NextFrame

SpecReuse == InitAnyBuffer /\ [][NextReuse]_vars

\* One render call of the second version with its iterations run by any
\* number of workers: every pending iteration may be the next to run.
NextPar ==
    \/ /\ pc = "idle"
       /\ \E n \in 0 .. MaxSprites : \E f \in [1 .. n -> ParShapes] :
              BeginRender(MakeVector(n, f))
    \/ \E i \in BlockIds : RunBlock(i)
    \/ \E y \in Rows : RunRow(y)

SpecPar == Init /\ [][NextPar]_vars

\* schedule(dynamic): a thread of the team takes a pending iteration.
\* TakeBlock and TakeRow are RunBlock and RunRow as far as blocksTodo and
\* rowsTodo go: they are enabled when an iteration is, and the steps of
\* SpecPar that change blocksTodo (rowsTodo) within a call are the RunBlock
\* (RunRow) steps.
TakeBlock ==
    /\ pc = "render"
    /\ \E i \in blocksTodo : blocksTodo' = blocksTodo \ {i}

TakeRow ==
    /\ pc = "render"
    /\ passAJoined
    /\ \E y \in rowsTodo : rowsTodo' = rowsTodo \ {y}

\* As long as an iteration of a parallel for is pending, one is taken.
FairSpecPar ==
    /\ SpecPar
    /\ WF_blocksTodo(TakeBlock)
    /\ WF_rowsTodo(TakeRow)

(***************************************************************************)
(* What a frame should show, stated on the sprites alone.                  *)
(***************************************************************************)
\* The rectangle, read as a set of integer points, contains (x, y).
Contains(r, x, y) ==
    /\ r.x <= x /\ x < r.x + r.width
    /\ r.y <= y /\ y < r.y + r.height

\* Some pixel of the viewport lies in the rectangle.
Visible(r) == \E x \in Columns, y \in Rows : Contains(r, x, y)

\* The sprite's pixel at screen position (x, y), for a sprite containing it.
PixelAt(s, x, y) == pixelGetter(s, x - s.position.x, y - s.position.y)

OpaqueAt(s, x, y) ==
    Contains(s.position, x, y) /\ ~PixelAt(s, x, y).isTransparent

TransparentAt(s, x, y) ==
    Contains(s.position, x, y) /\ PixelAt(s, x, y).isTransparent

\* The word the packer makes of the sprite's pixel at (x, y).
WordOf(s, x, y) ==
    LET p == PixelAt(s, x, y) IN rgbToARGB8888(p.r, p.g, p.b)

BlackWord == rgbToARGB8888(0, 0, 0)

DistinctLayers(S) ==
    \A i, j \in 1 .. Len(S) : i # j => S[i].layer # S[j].layer

\* The word of the sprite with the largest layer among those opaque at
\* (x, y), black if there is none.
ExpectedWord(S, x, y) ==
    LET opaque == {i \in 1 .. Len(S) : OpaqueAt(S[i], x, y)}
    IN  IF opaque = {} THEN BlackWord
        ELSE LET top == CHOOSE i \in opaque :
                            \A j \in opaque : S[j].layer <= S[i].layer
             IN  WordOf(S[top], x, y)

\* No sprite other than sprites[i] and sprites[j] is opaque at (x, y) with
\* a layer of at least l.
NoOtherOpaque(i, j, l, x, y) ==
    \A k \in 1 .. Len(sprites) :
        (k # i /\ k # j /\ sprites[k].layer >= l) => ~OpaqueAt(sprites[k], x, y)

\* The frame one worker renders from the sprites on a freshly constructed
\* renderer into a zeroed buffer.
FreshFrame(S) == render(variant, SpriteRenderer_new, S, ZeroBuffer).fb

\* The words of the frame: the first Width words of the first Height rows.
FrameWords(fb) == [y \in Rows |-> [x \in Columns |-> fb[y][x]]]

\* The buffer is zero outside the frame, as it is during and after a call
\* made on a zeroed buffer or on the frame of such a call.
ZeroOutsideFrame ==
    \A y \in BufRows, w \in BufWords :
        (y \in Rows /\ w \in Columns) \/ framebuffer[y][w] = ZeroWord

(***************************************************************************)
(* C1: when render has returned and the layers are pairwise distinct,      *)
(* every pixel (x, y) of the frame holds the packed colour of the sprite   *)
(* with the largest layer among the sprites containing (x, y) that are     *)
(* opaque there, and packer(0, 0, 0) if there is none.                     *)
(***************************************************************************)
C1_TopmostOpaqueSprite ==
    (pc = "returned" /\ DistinctLayers(sprites)) =>
        \A y \in Rows, x \in Columns :
            framebuffer[y][x] = ExpectedWord(sprites, x, y)

\* Two sprites of distinct layers, one of them beginning left of and above
\* the viewport, overlap on a pixel where the upper one is transparent and
\* the lower one shows, and some other pixel stays black.
C1_Witness ==
    /\ pc = "returned"
    /\ Len(sprites) = 2
    /\ DistinctLayers(sprites)
    /\ \E i \in 1 .. 2 : sprites[i].position.x < 0 /\ sprites[i].position.y < 0
    /\ \E i, j \in 1 .. 2 : \E y \in Rows, x \in Columns :
          /\ sprites[i].layer > sprites[j].layer
          /\ TransparentAt(sprites[i], x, y)
          /\ OpaqueAt(sprites[j], x, y)
          /\ framebuffer[y][x] = WordOf(sprites[j], x, y)
    /\ \E y \in Rows, x \in Columns : framebuffer[y][x] = BlackWord

(***************************************************************************)
(* C2: every begin list of every raster line is empty when a render call   *)
(* is entered and again when it returns, over any sequence of calls.       *)
(***************************************************************************)
C2_BeginListsEmptyBetweenCalls ==
    (pc \in {"idle", "returned"}) =>
        \A y \in Rows, x \in Columns : ISV_size(rasterLines[y][x]) = 0

\* A second call on the same renderer has returned after drawing a sprite.
C2_Witness ==
    /\ pc = "returned"
    /\ reused
    /\ \E y \in Rows, x \in Columns : framebuffer[y][x] # BlackWord

(***************************************************************************)
(* C3: whatever the order in which the block iterations of Pass A and the  *)
(* row iterations of Pass B are run, the frame is the one a single worker  *)
(* produces running them in index order: every row whose iteration has     *)
(* ended holds that frame's row, and so does the whole buffer when the     *)
(* call has returned.                                                      *)
(***************************************************************************)
C3_AnyScheduleSameFrame ==
    (pc \in {"render", "returned"} /\ rowsTodo # Rows) =>
        LET sequential == render(variant, SpriteRenderer_new, sprites, ZeroBuffer).fb
        IN  /\ \A y \in Rows \ rowsTodo : framebuffer[y] = sequential[y]
            /\ (pc = "returned") => framebuffer = sequential

\* A call whose iterations did not run in index order has returned; two
\* sprites lie across the border of the first two blocks.
C3_Witness ==
    /\ pc = "returned"
    /\ reordered
    /\ Len(sprites) = 2
    /\ \A i \in 1 .. 2 :
          Contains(sprites[i].position, 1, blockSize - 1)
          /\ Contains(sprites[i].position, 1, blockSize)
    /\ framebuffer[blockSize - 1][1] # BlackWord
    /\ framebuffer[blockSize][1] # BlackWord

(***************************************************************************)
(* C4: the frame of a call depends on that call's sprites only: after any  *)
(* earlier calls, and whatever the buffer held when the call was entered,  *)
(* its words are those a freshly constructed renderer produces from the    *)
(* same sprites (so the same sprites twice give the same frame); on a      *)
(* buffer that was zeroed the whole buffer is the one the fresh renderer   *)
(* leaves of a zeroed buffer.                                              *)
(***************************************************************************)
C4_FrameDependsOnSpritesOnly ==
    (pc = "returned") =>
        LET fresh == FreshFrame(sprites)
        IN  /\ FrameWords(framebuffer) = FrameWords(fresh)
            /\ ZeroOutsideFrame => framebuffer = fresh

\* A later call on a used renderer has returned with a sprite drawn, on a
\* buffer that was zeroed before the first call.
C4_Witness ==
    /\ pc = "returned"
    /\ reused
    /\ ZeroOutsideFrame
    /\ Len(sprites) >= 1
    /\ \E y \in Rows, x \in Columns : framebuffer[y][x] # BlackWord

(***************************************************************************)
(* C5: render writes the first Width words of each of the Height rows and  *)
(* nothing else: after the call each of those words has been written (a    *)
(* packed word, alpha 0xFF, over a buffer that held no such word), and at  *)
(* all times the words between Width and the pitch and the rows after the  *)
(* frame keep the value they had; before the loop of render has run, so    *)
(* does every word.                                                        *)
(***************************************************************************)
C5_WritesExactlyTheFrameWords ==
    \E entered \in CallerBuffers :
        \A y \in BufRows, w \in BufWords :
            IF y \in Rows /\ w \in Columns
                THEN IF pc = "returned" THEN framebuffer[y][w][1] = 255
                     ELSE framebuffer[y][w] = entered[y][w]
                ELSE framebuffer[y][w] = entered[y][w]

\* The call has returned, on a buffer the caller had filled, for a sprite
\* that reaches past the right and the bottom edge and is drawn in the last
\* column of the last row.
C5_Witness ==
    /\ pc = "returned"
    /\ framebuffer[Height - 1][Width] = FilledWord
    /\ framebuffer[Height][0] = FilledWord
    /\ \E i \in 1 .. Len(sprites) :
          /\ sprites[i].position.x + sprites[i].position.width > Width
          /\ sprites[i].position.y + sprites[i].position.height > Height
          /\ framebuffer[Height - 1][Width - 1] = WordOf(sprites[i], Width - 1, Height - 1)

(***************************************************************************)
(* C6: a sprite whose position does not intersect the viewport is never    *)
(* put into a block list or a begin list, and the frame is the one         *)
(* rendered without such sprites.                                          *)
(***************************************************************************)
C6_OutsideSpritesHaveNoEffect ==
    /\ \A b \in BlockIds : \A k \in 1 .. Len(blocks[b]) :
          Visible(blocks[b][k].position)
    /\ \A y \in Rows, x \in Columns : \A k \in 1 .. ISV_size(rasterLines[y][x]) :
          Visible(rasterLines[y][x].elems[k].position)
    /\ (pc = "returned") =>
          FrameWords(framebuffer)
              = FrameWords(FreshFrame(SelectSeq(sprites, LAMBDA s : Visible(s.position))))

\* A call with a drawn sprite and a non-empty sprite outside the viewport
\* has returned.
C6_Witness ==
    /\ pc = "returned"
    /\ \E i \in 1 .. Len(sprites) :
          ~Visible(sprites[i].position) /\ ~isEmpty(sprites[i].position)
    /\ \E y \in Rows, x \in Columns : framebuffer[y][x] # BlackWord

(***************************************************************************)
(* C7: of two fully opaque sprites the one with the larger layer shows on  *)
(* every pixel of the viewport that both contain (no third sprite of that  *)
(* layer or above being opaque there), in either input order and wherever  *)
(* the two begin on the row.                                               *)
(***************************************************************************)
C7_LargerLayerOnTop ==
    (pc = "returned") =>
        \A i, j \in 1 .. Len(sprites) :
            (/\ sprites[i].pattern = "opaque"
             /\ sprites[j].pattern = "opaque"
             /\ sprites[i].layer > sprites[j].layer) =>
                \A y \in Rows, x \in Columns :
                    (/\ Contains(sprites[i].position, x, y)
                     /\ Contains(sprites[j].position, x, y)
                     /\ NoOtherOpaque(i, j, sprites[i].layer, x, y)) =>
                        framebuffer[y][x] = WordOf(sprites[i], x, y)

\* The upper sprite comes first in the input and begins right of the lower
\* one on a row where both are drawn.
C7_Witness ==
    /\ pc = "returned"
    /\ Len(sprites) = 2
    /\ sprites[1].pattern = "opaque" /\ sprites[2].pattern = "opaque"
    /\ sprites[1].layer > sprites[2].layer
    /\ sprites[1].position.x > max(sprites[2].position.x, 0)
    /\ \E y \in Rows, x \in Columns :
          /\ Contains(sprites[1].position, x, y)
          /\ Contains(sprites[2].position, x, y)
          /\ framebuffer[y][x] = WordOf(sprites[1], x, y)

(***************************************************************************)
(* C8: where the sprite of the larger layer is transparent and a sprite of *)
(* a smaller layer below it is opaque (no third sprite of the lower layer  *)
(* or above being opaque there), the pixel shows the lower sprite's        *)
(* colour, not black.                                                      *)
(***************************************************************************)
C8_TransparentPixelShowsSpriteBelow ==
    (pc = "returned") =>
        \A i, j \in 1 .. Len(sprites) :
            (sprites[i].layer > sprites[j].layer) =>
                \A y \in Rows, x \in Columns :
                    (/\ TransparentAt(sprites[i], x, y)
                     /\ OpaqueAt(sprites[j], x, y)
                     /\ NoOtherOpaque(i, j, sprites[j].layer, x, y)) =>
                        /\ framebuffer[y][x] = WordOf(sprites[j], x, y)
                        /\ framebuffer[y][x] # BlackWord

\* A sprite that is transparent everywhere lies over an opaque one, and the
\* opaque one shows through.
C8_Witness ==
    /\ pc = "returned"
    /\ Len(sprites) = 2
    /\ \E i, j \in 1 .. 2 : \E y \in Rows, x \in Columns :
          /\ sprites[i].pattern = "clear"
          /\ sprites[j].pattern = "opaque"
          /\ sprites[i].layer > sprites[j].layer
          /\ TransparentAt(sprites[i], x, y)
          /\ OpaqueAt(sprites[j], x, y)
          /\ framebuffer[y][x] = WordOf(sprites[j], x, y)

\* Of sprites[i] and sprites[j], i before j in the input, with the same
\* position and layer and both fully opaque, the later one shows on every
\* pixel of their visible area (no third sprite of that layer or above
\* being opaque there).
LaterOfEqualSpritesShows ==
    \A i, j \in 1 .. Len(sprites) :
        (/\ i < j
         /\ sprites[i].position = sprites[j].position
         /\ sprites[i].layer = sprites[j].layer
         /\ sprites[i].pattern = "opaque"
         /\ sprites[j].pattern = "opaque") =>
            \A y \in Rows, x \in Columns :
                (/\ Contains(sprites[j].position, x, y)
                 /\ NoOtherOpaque(i, j, sprites[j].layer, x, y)) =>
                    framebuffer[y][x] = WordOf(sprites[j], x, y)

\* Two fully opaque sprites of the same position and layer have been drawn.
EqualSpritesDrawn ==
    /\ pc = "returned"
    /\ Len(sprites) = 2
    /\ sprites[1].position = sprites[2].position
    /\ sprites[1].layer = sprites[2].layer
    /\ sprites[1].pattern = "opaque" /\ sprites[2].pattern = "opaque"
    /\ Visible(sprites[1].position)

(***************************************************************************)
(* C9: in the sort-and-merge version, of two fully opaque sprites with     *)
(* the same position and layer the one later in the input shows on every   *)
(* pixel of their visible area.                                            *)
(***************************************************************************)
C9_SortMergeLaterSpriteWins ==
    (pc = "returned" /\ variant = "sortmerge") => LaterOfEqualSpritesShows

C9_Witness ==
    /\ variant = "sortmerge"
    /\ EqualSpritesDrawn
    /\ \E y \in Rows, x \in Columns :
          framebuffer[y][x] = WordOf(sprites[2], x, y)

(***************************************************************************)
(* C10: in the one-by-one insertion version, of two fully opaque sprites   *)
(* with the same position and layer the one later in the input shows on    *)
(* every pixel of their visible area.                                      *)
(***************************************************************************)
C10_OneByOneLaterSpriteWins ==
    (pc = "returned" /\ variant = "onebyone") => LaterOfEqualSpritesShows

\* RasterLine::render, the activeSpriteStack when the loop arrives at column
\* x: columns 0 .. x-1 have had their sprites inserted and their pixel
\* rendered.
RECURSIVE stackBeforeColumn(_, _, _, _)
stackBeforeColumn(v, line, x, y) ==
    IF x = 0 THEN <<>>
    ELSE renderPixel(
             insertAllActivatedSprites(v, stackBeforeColumn(v, line, x - 1, y),
                                       line[x - 1]).stack,
             x - 1, y).stack

\* RasterLine::render, the activeSpriteStack at column x once the sprites
\* beginning there have been inserted.
activeStackAt(v, line, x, y) ==
    insertAllActivatedSprites(v, stackBeforeColumn(v, line, x, y), line[x]).stack

\* Pass A has finished and no row has been rendered yet.
PassADone == pc = "render" /\ blocksTodo = {} /\ rowsTodo = Rows

(***************************************************************************)
(* C11: in a row, of two sprites of equal layer that are both in the       *)
(* active stack at a column, the one later in the input is nearer the top  *)
(* of the stack, whether they begin at the same x or not.                  *)
(***************************************************************************)
C11_EqualLayersLaterSpriteNearerTop ==
    PassADone =>
        \A y \in Rows, x \in Columns :
            LET stack == activeStackAt(variant, rasterLines[y], x, y)
            IN  \A p, q \in 1 .. Len(stack) :
                    (p < q /\ stack[p].layer = stack[q].layer) =>
                        stack[p].id < stack[q].id

(***************************************************************************)
(* IntRectangle called on its own.                                         *)
(***************************************************************************)
\* The largest value of Coord.
MaxCoord == CoordModulus \div 2 - 1

\* The rectangles a caller may construct: origins left of zero, inside the
\* viewport and next to the largest coordinate; empty, short and long
\* extents, and the largest extent of UCoord.
RectXs == {-2, 2, MaxCoord - 1}
RectYs == {0, 1}
RectWidths == {0, 2, 5, CoordModulus - 1}
RectHeights == {0, 2}

Rects ==
    {IntRectangle(x, y, w, h) : x \in RectXs, y \in RectYs,
                                w \in RectWidths, h \in RectHeights}

\* Three rectangles a, b, c have been constructed, in a program built with
\* or without NDEBUG.
InitRect ==
    /\ InitRenderer("sortmerge")
    /\ framebuffer = ZeroBuffer
    /\ ndebug \in BOOLEAN
    /\ calc \in [op : {"rects"}, a : Rects, b : Rects, c : Rects]

\* a.intersects(b), b.intersects(a) and both against the viewport.
CallIntersects ==
    /\ calc.op = "rects"
    /\ calc' = [op |-> "intersects", a |-> calc.a, b |-> calc.b, c |-> calc.c,
                ab |-> intersects(calc.a, calc.b),
                ba |-> intersects(calc.b, calc.a),
                av |-> intersects(calc.a, viewport),
                va |-> intersects(viewport, calc.a)]
    /\ UNCHANGED <<variant, sprites, blocks, rasterLines, framebuffer, pc,
                   blocksTodo, rowsTodo, reused, reordered, ndebug>>

\* first.getIntersection(other) where first is the outcome of an earlier
\* call: nothing is called once the process has aborted.
thenGetIntersection(first, other) ==
    IF first = AssertionFailed THEN AssertionFailed
    ELSE getIntersection(first, other)

\* other.getIntersection(second) where second is the outcome of an earlier
\* call.
getIntersectionWith(other, second) ==
    IF second = AssertionFailed THEN AssertionFailed
    ELSE getIntersection(other, second)

\* The calls of getIntersection on a, b, c and the viewport, each
\* expression evaluated in a run of its own.
CallGetIntersection ==
    /\ calc.op = "rects"
    /\ calc' = [op |-> "getIntersection", a |-> calc.a, b |-> calc.b, c |-> calc.c,
                ab |-> getIntersection(calc.a, calc.b),
                ba |-> getIntersection(calc.b, calc.a),
                aa |-> getIntersection(calc.a, calc.a),
                ab_c |-> thenGetIntersection(getIntersection(calc.a, calc.b), calc.c),
                a_bc |-> getIntersectionWith(calc.a, getIntersection(calc.b, calc.c)),
                av |-> getIntersection(calc.a, viewport)]
    /\ UNCHANGED <<variant, sprites, blocks, rasterLines, framebuffer, pc,
                   blocksTodo, rowsTodo, reused, reordered, ndebug>>

NextRect == CallIntersects \/ CallGetIntersection

SpecRect == InitRect /\ [][NextRect]_vars

\* The integer points of a rectangle, as a predicate.
\* x + width and y + height are taken in the integers, without wraparound.
SharePoint(r, other) ==
    /\ ~isEmpty(r) /\ ~isEmpty(other)
    /\ max(r.x, other.x) < min(r.x + r.width, other.x + other.width)
    /\ max(r.y, other.y) < min(r.y + r.height, other.y + other.height)

\* The last coordinates of the rectangle are values of Coord.
LastRepresentable(r) ==
    /\ r.x + r.width - 1 <= MaxCoord
    /\ r.y + r.height - 1 <= MaxCoord

(***************************************************************************)
(* C12: getIntersection is commutative: a.getIntersection(b) and           *)
(* b.getIntersection(a) are equal in x, y, width and height, for all       *)
(* rectangles, empty or not, intersecting or not.                          *)
(***************************************************************************)
C12_IntersectionCommutative ==
    (calc.op = "getIntersection") => calc.ab = calc.ba

\* Two different rectangles that overlap in part have been intersected.
C12_Witness ==
    /\ calc.op = "getIntersection"
    /\ calc.a # calc.b
    /\ calc.ab # AssertionFailed
    /\ ~isEmpty(calc.ab)
    /\ calc.ab # calc.a /\ calc.ab # calc.b
    /\ calc.ab = calc.ba

(***************************************************************************)
(* C13: getIntersection is idempotent: a.getIntersection(a) equals a in    *)
(* all four fields for every rectangle a, empty ones with a non-zero       *)
(* origin included.                                                        *)
(***************************************************************************)
C13_IntersectionIdempotent ==
    (calc.op = "getIntersection") => calc.aa = calc.a

\* C13, as the code has it: a.getIntersection(a) is a when a is not empty
\* and its last coordinates are values of Coord, and the default rectangle
\* (0, 0, 0, 0) otherwise.
C13_SelfIntersection ==
    (calc.op = "getIntersection") =>
        calc.aa = IF ~isEmpty(calc.a) /\ LastRepresentable(calc.a)
                      THEN calc.a
                      ELSE DefaultIntRectangle

\* A rectangle that is not empty, with an origin other than zero, has been
\* intersected with itself.
C13_Witness ==
    /\ calc.op = "getIntersection"
    /\ ~isEmpty(calc.a)
    /\ calc.a.x # 0 /\ calc.a.y # 0
    /\ calc.aa = calc.a

(***************************************************************************)
(* C14: getIntersection is associative: (a * b) * c equals a * (b * c) in  *)
(* all four fields for all rectangles a, b, c.                             *)
(***************************************************************************)
C14_IntersectionAssociative ==
    (calc.op = "getIntersection") => calc.ab_c = calc.a_bc

(***************************************************************************)
(* C15: the points of r.getIntersection(viewport) are exactly the points   *)
(* of r inside the viewport, and when there are none, or an operand is     *)
(* empty, the result is an empty rectangle.                                *)
(***************************************************************************)
C15_ClipIsExactlyThePointsInside ==
    (calc.op = "getIntersection") =>
        /\ calc.av # AssertionFailed
        /\ \A x \in (-3) .. (Width + 1), y \in (-1) .. (Height + 1) :
              (~isEmpty(calc.av) /\ Contains(calc.av, x, y))
                  <=> (~isEmpty(calc.a) /\ Contains(calc.a, x, y)
                       /\ Contains(viewport, x, y))
        /\ (~SharePoint(calc.a, viewport)) => isEmpty(calc.av)

(***************************************************************************)
(* C16: intersects is false whenever either rectangle is empty, for two    *)
(* non-empty rectangles it is true exactly when they share an integer      *)
(* point, and it is symmetric.                                             *)
(***************************************************************************)
C16_IntersectsIsSharingAPoint ==
    (calc.op = "intersects") =>
        /\ (isEmpty(calc.a) \/ isEmpty(calc.b)) => ~calc.ab
        /\ (~isEmpty(calc.a) /\ ~isEmpty(calc.b)) =>
              (calc.ab <=> SharePoint(calc.a, calc.b))
        /\ calc.ab = calc.ba

(***************************************************************************)
(* The pixel packer called on its own.                                     *)
(***************************************************************************)
\* Values of a colour byte: the ends of the range, and both sides of the
\* top bit and of the bottom bit.
ColourBytes == {0, 1, 127, 128, 254, 255}

Colours == [r : ColourBytes, g : ColourBytes, b : ColourBytes]

\* Two colours p and q are to be packed.
InitPack ==
    /\ InitRenderer("sortmerge")
    /\ framebuffer = ZeroBuffer
    /\ ndebug = FALSE
    /\ calc \in [op : {"colours"}, p : Colours, q : Colours]

\* rgbToARGB8888 called on p and on q.
CallPacker ==
    /\ calc.op = "colours"
    /\ calc' = [op |-> "packed", p |-> calc.p, q |-> calc.q,
                wordP |-> rgbToARGB8888(calc.p.r, calc.p.g, calc.p.b),
                wordQ |-> rgbToARGB8888(calc.q.r, calc.q.g, calc.q.b)]
    /\ UNCHANGED <<variant, sprites, blocks, rasterLines, framebuffer, pc,
                   blocksTodo, rowsTodo, reused, reordered, ndebug>>

NextPack == CallPacker

SpecPack == InitPack /\ [][NextPack]_vars

\* The value of the upper and of the lower 16 bits of a word; the word's
\* value as an unsigned 32-bit number is 65536 * UpperHalf + LowerHalf.
UpperHalf(word) == 256 * word[1] + word[2]
LowerHalf(word) == 256 * word[3] + word[4]

(***************************************************************************)
(* C17: for all r, g, b in 0..255 the packed word is                       *)
(* 0xFF000000 + r * 65536 + g * 256 + b as an unsigned 32-bit value, that  *)
(* is 65536 * (0xFF00 + r) + (256 * g + b): alpha byte 0xFF, R in bits     *)
(* 16-23, G in bits 8-15, B in bits 0-7; distinct colours give distinct    *)
(* words.                                                                  *)
(***************************************************************************)
C17_PackerIsARGB8888 ==
    (calc.op = "packed") =>
        /\ UpperHalf(calc.wordP) = 65280 + calc.p.r
        /\ LowerHalf(calc.wordP) = 256 * calc.p.g + calc.p.b
        /\ \A i \in 1 .. 4 : calc.wordP[i] \in 0 .. 255
        /\ calc.wordP[1] = 255
        /\ (calc.p # calc.q) => (calc.wordP # calc.wordQ)

\* Two colours that differ in the red byte only, with every bit of one
\* green byte and the top bit of a blue byte set, have been packed.
C17_Witness ==
    /\ calc.op = "packed"
    /\ calc.p.r # calc.q.r /\ calc.p.g = calc.q.g /\ calc.p.b = calc.q.b
    /\ calc.p.g = 255 /\ calc.p.b = 128
    /\ calc.wordP # calc.wordQ

(***************************************************************************)
(* The begin lists when Pass A has finished.                               *)
(***************************************************************************)
\* How often the sprite at index i of the input is in a begin list.
Occurrences(list, i) ==
    Cardinality({k \in 1 .. ISV_size(list) : list.elems[k].id = i})

\* The sprite has a pixel in the viewport, covers row y, and its first
\* visible column is x.
BeginsAt(s, x, y) ==
    /\ Visible(s.position)
    /\ s.position.y <= y /\ y < s.position.y + s.position.height
    /\ x = max(s.position.x, 0)

(***************************************************************************)
(* C18: when Pass A has finished, the begin list of row y and column x     *)
(* holds a sprite exactly once if the sprite is visible, covers row y and  *)
(* has x as its clipped first column, and does not hold it otherwise; it   *)
(* holds nothing but sprites of the input.                                 *)
(***************************************************************************)
C18_BeginListsHoldEachSpriteOnce ==
    PassADone =>
        \A y \in Rows, x \in Columns :
            /\ \A i \in 1 .. Len(sprites) :
                  Occurrences(rasterLines[y][x], i)
                      = IF BeginsAt(sprites[i], x, y) THEN 1 ELSE 0
            /\ \A k \in 1 .. ISV_size(rasterLines[y][x]) :
                  \E i \in 1 .. Len(sprites) :
                      rasterLines[y][x].elems[k] = sprites[i]

\* Pass A has finished for a sprite that begins left of the viewport and
\* lies across the border of the first two blocks, and one that is not
\* visible: the first is in the begin list of column 0 on either side of
\* the border and on no row above.
C18_Witness ==
    /\ PassADone
    /\ Len(sprites) = 2
    /\ \E i, j \in 1 .. 2 :
          /\ sprites[i].position.x < 0
          /\ sprites[i].position.y = blockSize - 1
          /\ ~Visible(sprites[j].position)
          /\ rasterLines[blockSize - 1][0].elems = <<sprites[i]>>
          /\ rasterLines[blockSize][0].elems = <<sprites[i]>>
          /\ ISV_size(rasterLines[blockSize - 2][0]) = 0

(***************************************************************************)
(* C19: when Pass A has finished, the sprites of every begin list are in   *)
(* the order they have in the input, whatever the order in which the       *)
(* block iterations ran.                                                   *)
(***************************************************************************)
C19_BeginListsInInputOrder ==
    PassADone =>
        \A y \in Rows, x \in Columns :
            \A p, q \in 1 .. ISV_size(rasterLines[y][x]) :
                (p < q) => rasterLines[y][x].elems[p].id < rasterLines[y][x].elems[q].id

\* The block iterations did not run in index order, and two sprites begin
\* in the same column on a row of either block.
C19_Witness ==
    /\ PassADone
    /\ reordered
    /\ Len(sprites) = 2
    /\ rasterLines[blockSize - 1][0].elems = <<sprites[1], sprites[2]>>
    /\ rasterLines[blockSize][0].elems = <<sprites[1], sprites[2]>>

(***************************************************************************)
(* What one iteration of a parallel loop touches.                          *)
(***************************************************************************)
\* The rows of block i.
RowsOfBlock(i) ==
    {y \in Rows : blockSize * i <= y /\ y < min(blockSize * i + blockSize, Height)}

\* The step is iteration i of Pass A, or iteration y of Pass B: RunBlock(i)
\* and RunRow(y), with what they do to blocksTodo and rowsTodo stated first.
BlockStep(i) ==
    /\ i \in blocksTodo
    /\ blocksTodo' = blocksTodo \ {i}
    /\ RunBlock(i)

RowStep(y) ==
    /\ y \in rowsTodo
    /\ rowsTodo' = rowsTodo \ {y}
    /\ RunRow(y)

\* The step leaves every raster line outside the set as it is.
LinesWrittenWithin(rows) ==
    \A y \in Rows \ rows : rasterLines'[y] = rasterLines[y]

\* The step leaves every row of the buffer outside the set as it is.
BufferWrittenWithin(rows) ==
    \A y \in BufRows \ rows : framebuffer'[y] = framebuffer[y]

\* What the step makes of row y is what RasterLine::render and clear make
\* of rasterLines[y] and of the buffer's row y alone.
RowDependsOnItselfOnly(y) ==
    LET res == RasterLine_render(variant, rasterLines[y], framebuffer[y], y)
    IN  /\ rasterLines'[y] = RasterLine_clear(res.line)
        /\ framebuffer'[y] = res.target

(***************************************************************************)
(* C20: no two iterations that may run at the same time touch the same     *)
(* raster line or the same row of the buffer.  Every row belongs to        *)
(* exactly one block; the Pass A iteration of block i writes no raster     *)
(* line outside rows 8 * i .. min(8 * i + 8, height) - 1 and nothing of    *)
(* the buffer; no Pass B iteration runs while one of Pass A is pending;    *)
(* the Pass B iteration of row y reads and clears rasterLines[y] only and  *)
(* writes row y of the buffer only.                                        *)
(***************************************************************************)
C20_IterationsTouchDisjointRows ==
    [][ /\ \A y \in Rows : Cardinality({i \in BlockIds : y \in RowsOfBlock(i)}) = 1
        /\ \A i \in BlockIds :
              BlockStep(i) => (LinesWrittenWithin(RowsOfBlock(i))
                               /\ BufferWrittenWithin({}))
        /\ \A y \in Rows :
              RowStep(y) => (/\ blocksTodo = {}
                             /\ LinesWrittenWithin({y})
                             /\ BufferWrittenWithin({y})
                             /\ RowDependsOnItselfOnly(y)) ]_vars

\* In the middle of Pass B of a call whose iterations did not run in index
\* order: a row of the second block has been rendered and cleared while a
\* row of the first block still holds its sprites and is not yet drawn.
C20_Witness ==
    /\ pc = "render"
    /\ reordered
    /\ blocksTodo = {}
    /\ \E y \in RowsOfBlock(1), z \in RowsOfBlock(0) :
          /\ y \notin rowsTodo
          /\ z \in rowsTodo
          /\ framebuffer[y] # ZeroBuffer[y]
          /\ \E x \in Columns : framebuffer[y][x] # BlackWord
          /\ \A x \in Columns : ISV_size(rasterLines[y][x]) = 0
          /\ \E x \in Columns : ISV_size(rasterLines[z][x]) > 0
          /\ framebuffer[z] = ZeroBuffer[z]

\* The sprite is visible and covers row y.
CoversRow(s, y) ==
    /\ Visible(s.position)
    /\ s.position.y <= y /\ y < s.position.y + s.position.height

(***************************************************************************)
(* C21: within a render call no row iteration of Pass B starts before      *)
(* every block iteration of Pass A has ended.  So when the iteration of    *)
(* row y starts, the begin lists of row y hold every sprite of the call    *)
(* that covers row y; no block iteration runs once a row iteration has     *)
(* run, and the begin lists of a row whose iteration has run are not       *)
(* appended to.                                                            *)
(***************************************************************************)
C21_PassBStartsAfterPassA ==
    [][ /\ \A y \in Rows :
              RowStep(y) =>
                  /\ blocksTodo = {}
                  /\ \A i \in 1 .. Len(sprites) :
                        CoversRow(sprites[i], y) =>
                            Occurrences(rasterLines[y][max(sprites[i].position.x, 0)], i) = 1
        /\ \A i \in BlockIds : BlockStep(i) => rowsTodo = Rows
        /\ (pc = "render") =>
              \A y \in Rows \ rowsTodo, x \in Columns :
                  ISV_size(rasterLines'[y][x]) <= ISV_size(rasterLines[y][x]) ]_vars

\* The block iterations ran out of index order and have all ended; the row
\* after the block border has been rendered and shows a sprite, the row
\* before the border has not been rendered and holds both sprites of the
\* call.
C21_Witness ==
    /\ pc = "render"
    /\ reordered
    /\ blocksTodo = {}
    /\ Len(sprites) = 2
    /\ blockSize \notin rowsTodo
    /\ (blockSize - 1) \in rowsTodo
    /\ \E x \in Columns : framebuffer[blockSize][x] # BlackWord
    /\ \A i \in 1 .. 2 :
          /\ CoversRow(sprites[i], blockSize - 1)
          /\ Occurrences(rasterLines[blockSize - 1][max(sprites[i].position.x, 0)], i) = 1

(***************************************************************************)
(* distributeSpritesToRasterLines called on one sprite: the indices it     *)
(* uses.                                                                   *)
(***************************************************************************)
\* Positions of a sprite: begun left of, inside and right of the viewport
\* and next to the largest coordinate; above the viewport, on the last row
\* of the first block, on the last row and below it; empty, short, longer
\* than the viewport and of the largest extent of UCoord.
IndexXs == {-2, 2, Width, MaxCoord - 1}
IndexYs == {-2, blockSize - 1, Height - 1, Height}
IndexWidths == {0, 2, Width + 3, CoordModulus - 1}
IndexHeights == {1, 2, Height + 3, CoordModulus - 1}

IndexRects ==
    {IntRectangle(x, y, w, h) : x \in IndexXs, y \in IndexYs,
                                w \in IndexWidths, h \in IndexHeights}

\* What a call has indexed: the i of blocks[i], the y of rasterLines[y] and
\* the firstX of addSprite; aborted when an assert() stopped the call.
NoIndices == [aborted |-> FALSE, blocks |-> {}, rows |-> {}, columns |-> {}]
Aborted == [aborted |-> TRUE, blocks |-> {}, rows |-> {}, columns |-> {}]

\* The second loop, iteration i, for a sprite of blocks[i].
indicesOfBlock(i, position) ==
    LET visibleRect == getIntersection(blockViewportOf(i), position)
    IN  IF visibleRect = AssertionFailed THEN Aborted
        ELSE IF isEmpty(visibleRect) THEN NoIndices
        ELSE LET rows == visibleRect.y .. getLastY(visibleRect)
             IN  [aborted |-> FALSE, blocks |-> {}, rows |-> rows,
                  columns |-> IF rows = {} THEN {} ELSE {visibleRect.x}]

\* Both loops for a vector holding one sprite.
indicesOfSprite(position) ==
    LET visibleRect == getIntersection(viewport, position)
    IN  IF visibleRect = AssertionFailed THEN Aborted
        ELSE IF isEmpty(visibleRect) THEN NoIndices
        ELSE LET firstBlock == CDiv(visibleRect.y, blockSize)
                 lastBlock == CDiv(getLastY(visibleRect), blockSize)
                 pushed == firstBlock .. lastBlock
                 second == [i \in pushed \cap BlockIds |-> indicesOfBlock(i, position)]
             IN  [aborted |-> \E i \in DOMAIN second : second[i].aborted,
                  blocks |-> pushed,
                  rows |-> UNION {second[i].rows : i \in DOMAIN second},
                  columns |-> UNION {second[i].columns : i \in DOMAIN second}]

\* A sprite has been constructed, in a program built with or without NDEBUG.
InitIndex ==
    /\ InitRenderer("sortmerge")
    /\ framebuffer = ZeroBuffer
    /\ ndebug \in BOOLEAN
    /\ calc \in [op : {"sprite"}, position : IndexRects]

CallDistribute ==
    /\ calc.op = "sprite"
    /\ calc' = [op |-> "distributed", position |-> calc.position,
                used |-> indicesOfSprite(calc.position)]
    /\ UNCHANGED <<variant, sprites, blocks, rasterLines, framebuffer, pc,
                   blocksTodo, rowsTodo, reused, reordered, ndebug>>

NextIndex == CallDistribute

SpecIndex == InitIndex /\ [][NextIndex]_vars

(***************************************************************************)
(* C22: for every position of a sprite, negative x or y and x + width or   *)
(* y + height beyond the viewport included, every index Pass A uses is in  *)
(* range: the i of blocks[i] has 0 <= i < numBlocks, numBlocks being the   *)
(* ceiling of height / 8; the y of rasterLines[y] has 0 <= y < height; the *)
(* column given to addSprite is the clipped first x, 0 <= firstX < width.  *)
(***************************************************************************)
C22_PassAIndicesInRange ==
    (calc.op = "distributed") =>
        /\ blockSize * numBlocks >= Height
        /\ blockSize * (numBlocks - 1) < Height
        /\ \A i \in calc.used.blocks : 0 <= i /\ i < numBlocks
        /\ \A y \in calc.used.rows : 0 <= y /\ y < Height
        /\ \A x \in calc.used.columns :
              0 <= x /\ x < Width /\ x = max(calc.position.x, 0)

\* A sprite that begins left of and above the viewport and reaches past its
\* right and bottom edge has been put into both blocks, every row, and
\* column 0.
C22_Witness ==
    /\ calc.op = "distributed"
    /\ ~calc.used.aborted
    /\ calc.position.x < 0 /\ calc.position.y < 0
    /\ calc.position.x + calc.position.width > Width
    /\ calc.position.y + calc.position.height > Height
    /\ calc.used.blocks = BlockIds
    /\ calc.used.rows = Rows
    /\ calc.used.columns = {0}

(***************************************************************************)
(* Render calls on sprites that share their rows: what the active sprite   *)
(* stack of a row goes through depends on where the sprites of the row     *)
(* begin and end and on their layers, so the sprites of these calls lie on *)
(* the same two rows, and there are more of them.                          *)
(***************************************************************************)
\* A sprite on the last row of the first block and the row after it: ending
\* before the last column or reaching past it, with any layer and one of the
\* patterns.
StackShapes ==
    [position : {IntRectangle(h[1], blockSize - 1, h[2], 2) : h \in HSpans},
     layer : Layers, pattern : Patterns]

\* The largest number of sprites of such a call.
StackSprites == MaxSprites + 1

NextStack ==
    \/ /\ pc = "idle"
       /\ \E n \in 0 .. StackSprites : \E f \in [1 .. n -> StackShapes] :
              BeginRender(MakeVector(n, f))
    \/ PassA
    \/ PassB

SpecStack == Init /\ [][NextStack]_vars

(***************************************************************************)
(* C23: while a row y is rendered, every call pixelGetter(u, v) that       *)
(* renderPixel makes on a sprite has 0 <= u < width and 0 <= v < height of *)
(* that sprite: no sprite that ended left of the column and no sprite that *)
(* does not cover the row is asked for a pixel.                            *)
(***************************************************************************)
C23_PixelGetterCalledInsideSprite ==
    PassADone =>
        \A y \in Rows, x \in Columns :
            LET res == renderPixel(activeStackAt(variant, rasterLines[y], x, y), x, y)
            IN  \A k \in 1 .. Len(res.calls) :
                    LET call == res.calls[k]
                    IN  /\ 0 <= call.u /\ call.u < call.sprite.position.width
                        /\ 0 <= call.v /\ call.v < call.sprite.position.height
                        /\ ~(x > getLastX(call.sprite.position))
                        /\ CoversRow(call.sprite, y)

\* On the last column of a row a sprite that has ended is still in the
\* stack, under a sprite that is transparent there: renderPixel removes it
\* and asks only the upper sprite for a pixel.
C23_Witness ==
    /\ PassADone
    /\ Len(sprites) = 2
    /\ \E y \in Rows :
          LET x == Width - 1
              stack == activeStackAt(variant, rasterLines[y], x, y)
              res == renderPixel(stack, x, y)
          IN  /\ Len(stack) = 2
              /\ getLastX(stack[1].position) < x
              /\ res.retries = 1
              /\ Len(res.calls) = 2
              /\ res.calls[1].sprite = stack[2]
              /\ res.calls[2].sprite = stack[2]
              /\ res.stack = <<stack[2]>>

(***************************************************************************)
(* The active sprite stack of a row, column by column.                     *)
(***************************************************************************)
\* The sprite is visible, covers row y, and column x lies between its
\* clipped first column and its last column.
CoversPixel(s, x, y) ==
    /\ CoversRow(s, y)
    /\ max(s.position.x, 0) <= x
    /\ x <= s.position.x + s.position.width - 1

\* The sprite has ended left of column x.
Stale(s, x) == s.position.x + s.position.width - 1 < x

\* How often the sprite at index i of the input is in the stack.
TimesInStack(stack, i) == Cardinality({p \in 1 .. Len(stack) : stack[p].id = i})

\* renderPixel at column x of row y, on the stack it finds there.
PixelResolution(x, y) ==
    renderPixel(activeStackAt(variant, rasterLines[y], x, y), x, y)

(***************************************************************************)
(* C24: on every row and at every column x, once renderPixel has returned  *)
(* for x the active stack holds exactly the sprites of the row whose       *)
(* clipped x-range covers x: no sprite that ended left of x is left in it  *)
(* and no covering sprite is missing.                                      *)
(***************************************************************************)
C24_StackIsExactlyTheCoveringSprites ==
    PassADone =>
        \A y \in Rows, x \in Columns :
            LET after == PixelResolution(x, y).stack
            IN  /\ \A i \in 1 .. Len(sprites) :
                      CoversPixel(sprites[i], x, y) => TimesInStack(after, i) = 1
                /\ \A p \in 1 .. Len(after) : CoversPixel(after[p], x, y)

\* C24, as the code has it: once renderPixel has returned for x the stack
\* holds every sprite of the row that covers x, once, and nothing but
\* sprites of the row that began at or left of x; a sprite that ended left
\* of x is left in it only below the sprite whose opaque pixel was returned.
C24_StaleSpritesOnlyBelowTheOpaqueOne ==
    PassADone =>
        \A y \in Rows, x \in Columns :
            LET res == PixelResolution(x, y)
                after == res.stack
            IN  /\ \A i \in 1 .. Len(sprites) :
                      CoversPixel(sprites[i], x, y) => TimesInStack(after, i) = 1
                /\ \A p \in 1 .. Len(after) :
                      \/ CoversPixel(after[p], x, y)
                      \/ /\ Stale(after[p], x)
                         /\ CoversRow(after[p], y)
                         /\ ~res.pix.isTransparent
                         /\ \E q \in (p + 1) .. Len(after) :
                               /\ after[q] = res.calls[Len(res.calls)].sprite
                               /\ CoversPixel(after[q], x, y)

\* On the last column of a row renderPixel has returned the opaque pixel of
\* the topmost sprite, and the sprite below it, which ended one column
\* before, is still in the stack.
C24_Witness ==
    /\ PassADone
    /\ \E y \in Rows :
          LET x == Width - 1
              res == PixelResolution(x, y)
          IN  /\ Len(res.stack) = 2
              /\ Stale(res.stack[1], x)
              /\ CoversPixel(res.stack[2], x, y)
              /\ ~res.pix.isTransparent
              /\ res.retries = 0

(***************************************************************************)
(* C25: on every row and at every column x, after the activation at x and  *)
(* until renderPixel has returned, every sprite of the row that covers x   *)
(* is in the active stack exactly once.  pop_back and                      *)
(* removeInactiveSpritesFromSpriteStack remove only sprites that ended     *)
(* left of x; a sprite once removed is not inserted again; the merge       *)
(* neither drops nor duplicates an entry and leaves no nullptr in the      *)
(* stack.                                                                  *)
(***************************************************************************)
C25_CoveringSpritesStayInStack ==
    PassADone =>
        \A y \in Rows, x \in Columns :
            LET before == stackBeforeColumn(variant, rasterLines[y], x, y)
                activated == activeStackAt(variant, rasterLines[y], x, y)
                after == renderPixel(activated, x, y).stack
            IN  /\ \A i \in 1 .. Len(sprites) :
                      /\ CoversPixel(sprites[i], x, y) =>
                            (TimesInStack(activated, i) = 1 /\ TimesInStack(after, i) = 1)
                      /\ TimesInStack(activated, i)
                            = TimesInStack(before, i) + Occurrences(rasterLines[y][x], i)
                      /\ TimesInStack(activated, i) <= 1
                      /\ TimesInStack(after, i) <= TimesInStack(activated, i)
                      /\ (TimesInStack(after, i) < TimesInStack(activated, i)) =>
                            Stale(sprites[i], x)
                /\ Len(activated) = Len(before) + ISV_size(rasterLines[y][x])
                /\ \A p \in 1 .. Len(activated) :
                      /\ activated[p] # Nullptr
                      /\ \E i \in 1 .. Len(sprites) : activated[p] = sprites[i]

\* On one row a sprite beginning at column 1 has been merged in below the
\* sprite already in the stack, and on the last column renderPixel has found
\* that the topmost sprite has ended and has popped it.
C25_Witness ==
    /\ PassADone
    /\ Len(sprites) = 2
    /\ \E y \in Rows :
          LET before == stackBeforeColumn(variant, rasterLines[y], 1, y)
              merged == activeStackAt(variant, rasterLines[y], 1, y)
              last == activeStackAt(variant, rasterLines[y], Width - 1, y)
              res == renderPixel(last, Width - 1, y)
          IN  /\ Len(before) = 1
              /\ Len(merged) = 2
              /\ merged[2] = before[1]
              /\ Len(last) = 2
              /\ Stale(last[2], Width - 1)
              /\ res.stack = <<last[1]>>

\* The layers of the stack do not decrease from the front to the back.
OrderedByLayer(stack) ==
    \A p, q \in 1 .. Len(stack) : (p < q) => stack[p].layer <= stack[q].layer

(***************************************************************************)
(* C26: at every column of every row the active sprite stack is ordered by *)
(* layer, not decreasing from the front (bottom) to the back (topmost):    *)
(* when the loop arrives at the column, after the activation there, for an *)
(* empty and a non-empty previous stack and any number of sprites          *)
(* beginning there, and after renderPixel has removed ended sprites by     *)
(* pop_back or by compaction.                                              *)
(***************************************************************************)
C26_StackOrderedByLayer ==
    PassADone =>
        \A y \in Rows, x \in Columns :
            LET before == stackBeforeColumn(variant, rasterLines[y], x, y)
                activated == activeStackAt(variant, rasterLines[y], x, y)
                after == renderPixel(activated, x, y).stack
            IN  /\ OrderedByLayer(before)
                /\ OrderedByLayer(activated)
                /\ OrderedByLayer(after)

\* On one row the sprite of the larger layer is in the stack when the sprite
\* of the smaller layer begins: the merge has moved the first up and put the
\* second under it.
C26_Witness ==
    /\ PassADone
    /\ Len(sprites) = 2
    /\ \E i, j \in 1 .. 2 : \E y \in Rows :
          /\ sprites[i].layer > sprites[j].layer
          /\ stackBeforeColumn(variant, rasterLines[y], 1, y) = <<sprites[i]>>
          /\ rasterLines[y][1].elems = <<sprites[j]>>
          /\ activeStackAt(variant, rasterLines[y], 1, y) = <<sprites[j], sprites[i]>>

(***************************************************************************)
(* C27: every render call ends.  In renderPixel every jump back to         *)
(* renderPixelRetry follows the removal of at least one sprite, so there   *)
(* are at most as many jumps as the stack has entries; the merge loop of   *)
(* insertAllActivatedSprites ends after at most (old size + new size)      *)
(* steps; every block iteration and every row iteration ends, so a call    *)
(* that has been entered returns.                                          *)
(***************************************************************************)
C27_RenderTerminates ==
    /\ [](PassADone =>
            \A y \in Rows, x \in Columns :
                LET before == stackBeforeColumn(variant, rasterLines[y], x, y)
                    ins == insertAllActivatedSprites(variant, before, rasterLines[y][x])
                    res == renderPixel(ins.stack, x, y)
                IN  /\ ins.steps <= Len(before) + ISV_size(rasterLines[y][x])
                    /\ res.retries <= Len(ins.stack) - Len(res.stack)
                    /\ res.retries <= Len(ins.stack))
    /\ ((pc = "render") ~> (pc = "returned"))

\* A call whose iterations ran out of index order has returned; on one of
\* its rows the merge loop ran twice and renderPixel jumped back once.
C27_Witness ==
    /\ pc = "returned"
    /\ reordered
    /\ Len(sprites) = 2
    /\ LET lines == distributeSpritesToRasterLines(SpriteRenderer_new, sprites)
       IN  \E y \in Rows :
              /\ insertAllActivatedSprites(variant,
                     stackBeforeColumn(variant, lines[y], 1, y), lines[y][1]).steps = 2
              /\ renderPixel(activeStackAt(variant, lines[y], Width - 1, y),
                             Width - 1, y).retries = 1

(***************************************************************************)
(* The two versions of the renderer given the same sprites.                *)
(***************************************************************************)
\* The sprites of such a call lie across the border of the first two
\* blocks: one over the whole width begun left of the viewport, one begun
\* at column 1 and reaching past the right edge, one of two columns begun at
\* column 0, and one of a single column over every row.
VersionShapes ==
    { [position |-> IntRectangle(-1, blockSize - 1, Width, 2), pattern |-> "opaque"],
      [position |-> IntRectangle(1, blockSize - 1, Width, 2), pattern |-> "checker"],
      [position |-> IntRectangle(0, blockSize - 1, 2, 2), pattern |-> "checker"],
      [position |-> IntRectangle(1, -1, 1, Height + 2), pattern |-> "opaque"] }

\* One sprite more than in the calls above, their layers pairwise distinct,
\* in every order.
VersionSprites == MaxSprites + 1

VersionVectors ==
    { MakeVector(VersionSprites,
                 [i \in 1 .. VersionSprites |->
                     [position |-> f[i].position, pattern |-> f[i].pattern,
                      layer |-> l[i] - 1]]) :
          f \in [1 .. VersionSprites -> VersionShapes],
          l \in Permutations(1 .. VersionSprites) }

InitVersions ==
    /\ InitRenderer("sortmerge")
    /\ framebuffer = ZeroBuffer
    /\ ndebug = FALSE
    /\ calc \in [op : {"sprites"}, S : VersionVectors]

\* render(S, framebuffer, pitch) on a renderer of either version, each with
\* a zeroed buffer.
CallBothVersions ==
    /\ calc.op = "sprites"
    /\ calc' = [op |-> "rendered", S |-> calc.S,
                onebyone |-> render("onebyone", SpriteRenderer_new, calc.S, ZeroBuffer).fb,
                sortmerge |-> render("sortmerge", SpriteRenderer_new, calc.S, ZeroBuffer).fb]
    /\ UNCHANGED <<variant, sprites, blocks, rasterLines, framebuffer, pc,
                   blocksTodo, rowsTodo, reused, reordered, ndebug>>

NextVersions == CallBothVersions

SpecVersions == InitVersions /\ [][NextVersions]_vars

(***************************************************************************)
(* C28: the version that inserts each activated sprite by a search from    *)
(* the top and the version that sorts the begin list and merges it into    *)
(* the stack produce the same framebuffer for every set of sprites whose   *)
(* layers are pairwise distinct.                                           *)
(***************************************************************************)
C28_VersionsAgreeOnDistinctLayers ==
    (calc.op = "rendered" /\ DistinctLayers(calc.S)) =>
        calc.onebyone = calc.sortmerge

\* Three sprites that begin in the same column of the same row, given in
\* the order middle, top, bottom layer, have been rendered by both versions;
\* a pixel shows the top one.
C28_Witness ==
    /\ calc.op = "rendered"
    /\ DistinctLayers(calc.S)
    /\ Len(calc.S) >= 3
    /\ \A i \in 1 .. 3 : calc.S[i].position = calc.S[1].position
    /\ calc.S[2].layer > calc.S[1].layer
    /\ calc.S[1].layer > calc.S[3].layer
    /\ \E x \in Columns :
          /\ OpaqueAt(calc.S[2], x, blockSize)
          /\ calc.sortmerge[blockSize][x] = WordOf(calc.S[2], x, blockSize)
          /\ calc.onebyone[blockSize][x] = WordOf(calc.S[2], x, blockSize)

(***************************************************************************)
(* C29: for every pair of rectangles of the coordinate type, last          *)
(* coordinates computed with wraparound and converted to signed, whenever  *)
(* intersects returns true the two assertions of getIntersection hold:     *)
(* the smaller of the last coordinates is not below the larger of the      *)
(* origins, on both axes.  So no call of getIntersection stops at an       *)
(* assertion, and the width and height of the result are at least 1.       *)
(***************************************************************************)
C29_AssertionsHoldWhenIntersecting ==
    (calc.op = "getIntersection") =>
        /\ intersects(calc.a, calc.b) =>
              /\ min(getLastX(calc.a), getLastX(calc.b)) >= max(calc.a.x, calc.b.x)
              /\ min(getLastY(calc.a), getLastY(calc.b)) >= max(calc.a.y, calc.b.y)
        /\ calc.ab # AssertionFailed
        /\ intersects(calc.a, calc.b) => (calc.ab.width >= 1 /\ calc.ab.height >= 1)

(***************************************************************************)
(* InlineStorageVector<T, numInlineElements> used on its own.              *)
(***************************************************************************)
\* The inline capacities, and the values of T: a value-initialised T and
\* the elements a caller puts.
InlineCapacities == 1 .. numInlineSpritesPerPixel
DefaultT == 0
Elements == {1, 2}

\* variant<InlineStorage, vector<T>> holding a value-initialised
\* InlineStorage: nElems = 0 and T elems[n].
InlineStorage_new(n) ==
    [inline |-> TRUE, nElems |-> 0, elems |-> [i \in 0 .. (n - 1) |-> DefaultT]]

\* for (i = 0; i < nElems; i++) vec.push_back(move(inlineStorage->elems[i])).
RECURSIVE moveFrom(_, _, _)
moveFrom(storage, i, vec) ==
    IF ~(i < storage.nElems) THEN vec
    ELSE moveFrom(storage, i + 1, Append(vec, storage.elems[i]))

\* The loop begun at i = 1.
moveToVector_SkipsFirst(storage) == moveFrom(storage, 1, <<>>)

moveToVector(storage) == moveFrom(storage, 0, <<>>)

\* put(elem) for inline capacity n.
InlineStorageVector_put(n, storage, elem) ==
    IF storage.inline
    THEN IF storage.nElems < n
         THEN [storage EXCEPT !.elems[storage.nElems] = elem, !.nElems = @ + 1]
         ELSE [inline |-> FALSE, vec |-> Append(moveToVector(storage), elem)]
    ELSE [storage EXCEPT !.vec = Append(@, elem)]

\* size().
InlineStorageVector_size(storage) ==
    IF storage.inline THEN storage.nElems ELSE Len(storage.vec)

\* const T& operator[](index) const; vector<T> is indexed from 0, the
\* model's sequence from 1.
InlineStorageVector_at(storage, index) ==
    IF storage.inline THEN storage.elems[index] ELSE storage.vec[index + 1]

\* clear(): storage.emplace<InlineStorage>().
InlineStorageVector_clear(n, storage) == InlineStorage_new(n)

\* What an iteration from begin() to end() visits: size() elements from
\* elems or from the vector's data().
RECURSIVE iterateFrom(_, _, _)
iterateFrom(storage, i, seen) ==
    IF ~(i < InlineStorageVector_size(storage)) THEN seen
    ELSE iterateFrom(storage, i + 1,
                     Append(seen, IF storage.inline THEN storage.elems[i]
                                  ELSE storage.vec[i + 1]))

InlineStorageVector_iterate(storage) == iterateFrom(storage, 0, <<>>)

\* A vector of some inline capacity has been constructed.  storage is the
\* vector, list the begin list of a pixel given the same calls, put the
\* elements put since the last clear, last the last call, spilled whether
\* the vector had left its inline storage before the last clear.
InitVector ==
    /\ InitRenderer("sortmerge")
    /\ framebuffer = ZeroBuffer
    /\ ndebug = FALSE
    /\ calc \in {[op |-> "vector", n |-> n, storage |-> InlineStorage_new(n),
                  list |-> ISV_empty, put |-> <<>>, last |-> "new",
                  spilled |-> FALSE] : n \in InlineCapacities}

CallPut(elem) ==
    /\ calc.op = "vector"
    /\ Len(calc.put) < MaxPuts
    /\ calc' = [calc EXCEPT !.storage = InlineStorageVector_put(calc.n, @, elem),
                            !.list = ISV_put(@, elem),
                            !.put = Append(@, elem),
                            !.last = "put"]
    /\ UNCHANGED <<variant, sprites, blocks, rasterLines, framebuffer, pc,
                   blocksTodo, rowsTodo, reused, reordered, ndebug>>

CallClear ==
    /\ calc.op = "vector"
    /\ calc.last = "put"
    /\ calc' = [calc EXCEPT !.storage = InlineStorageVector_clear(calc.n, @),
                            !.list = ISV_clear(@),
                            !.put = <<>>,
                            !.last = "clear",
                            !.spilled = ~calc.storage.inline]
    /\ UNCHANGED <<variant, sprites, blocks, rasterLines, framebuffer, pc,
                   blocksTodo, rowsTodo, reused, reordered, ndebug>>

NextVector ==
    \/ \E elem \in Elements : CallPut(elem)
    \/ CallClear

SpecVector == InitVector /\ [][NextVector]_vars

(***************************************************************************)
(* C30: InlineStorageVector behaves as a plain sequence for every inline   *)
(* capacity N and every sequence of put and clear: size() is the number of *)
(* puts since the last clear, element i (const operator[], and iteration   *)
(* from begin() to end()) is the i-th element put since the last clear,    *)
(* in inline storage, in the vector, and across the move at put number     *)
(* N + 1; after clear() the size is 0 and the storage is inline.  The      *)
(* begin list of a pixel, of capacity numInlineSpritesPerPixel, holds the  *)
(* same elements.                                                          *)
(***************************************************************************)
C30_InlineStorageVectorIsASequence ==
    (calc.op = "vector") =>
        /\ InlineStorageVector_size(calc.storage) = Len(calc.put)
        /\ \A i \in 0 .. (Len(calc.put) - 1) :
              InlineStorageVector_at(calc.storage, i) = calc.put[i + 1]
        /\ InlineStorageVector_iterate(calc.storage) = calc.put
        /\ calc.storage.inline <=> (Len(calc.put) <= calc.n)
        /\ (calc.last = "clear") =>
              (InlineStorageVector_size(calc.storage) = 0 /\ calc.storage.inline)
        /\ (calc.n = numInlineSpritesPerPixel) =>
              /\ calc.list.elems = calc.put
              /\ ISV_size(calc.list) = InlineStorageVector_size(calc.storage)
              /\ calc.list.inline = calc.storage.inline

\* A vector that had spilled and was cleared has been filled again, with
\* different elements, one past its inline capacity: it has just moved its
\* elements to the vector a second time.
C30_Witness ==
    /\ calc.op = "vector"
    /\ calc.spilled
    /\ calc.n >= 2
    /\ Len(calc.put) = calc.n + 1
    /\ calc.put[1] # calc.put[calc.n + 1]
    /\ ~calc.storage.inline
    /\ calc.storage.vec = calc.put

====
